---- MODULE Spec2Model ----
(***************************************************************************)
(* Model of the concurrency layer of the two-channel delay-and-sum         *)
(* beamformer: the CircularBuffer that moves samples between two stage     *)
(* threads (circular_buffer.cpp) and the ErrorHandler that holds the       *)
(* global pipeline state (error_handler.cpp).                              *)
(*                                                                         *)
(* Every member function that takes the buffer's mutex is cut at the       *)
(* points where the mutex is released: a call is the sequence of its       *)
(* lock-held segments, and each segment is one action.  Between two        *)
(* segments any other thread may run.                                      *)
(***************************************************************************)
EXTENDS Integers, Sequences, FiniteSets, TLC

(***************************************************************************)
(* Bounds of the model.                                                    *)
(***************************************************************************)
\* size_t is modelled as an unsigned integer of SizeTBits bits.
SizeTBits == 6
\* The channel of the model has 2^BufferBits slots (BUFFER_SIZE scaled down).
BufferBits == 2
\* Samples handed to write() over a run, beyond the size of the channel.
ExtraSamples == 2
\* close() calls over a run (stop() closes, and so does the destructor).
MaxCloses == 2
\* Periods of audio a channel between two stages holds.
ChanPeriods == 1
\* Hardware transfers and processing steps that fail over a run.
MaxFaults == 1
\* Periods with a non-zero sample that the capture hardware delivers over a
\* run; the periods after them are silent.
MaxPeriods == 1
\* Frames of one period (FRAME_SIZE scaled down).
PeriodFrames == 2
\* Times in a row the hardware answers -EAGAIN to snd_pcm_resume.
MaxResumes == 6
\* Periods the processing stages process in a run
MaxFrames == 21

SIZE_MOD == 2 ^ SizeTBits
SIZE_MAX == SIZE_MOD - 1
BUFFER_SIZE == 2 ^ BufferBits
FRAME_SIZE == PeriodFrames
NUM_CHANNELS == 2
MAX_XRUN_RETRIES == 5
SAMPLE_RATE == 32000
MAX_DOA_ANGLES == 181
MAX_STEERING_DELAY == 24
\* MIC_DISTANCE (0.0585 m) in tenths of a millimetre
MIC_DISTANCE_E4 == 585
SOUND_SPEED == 343

MaxSamples == BUFFER_SIZE + ExtraSamples

\* Sizes passed to write(): one sample, what fills an empty channel exactly,
\* and more than the channel can ever hold.
WriteSizes == {1, BUFFER_SIZE - 1, BUFFER_SIZE + 1}
\* Sizes passed to read(): small chunks, and more than the channel can hold.
ReadSizes == {1, 2, BUFFER_SIZE + 1}

VARIABLES
    \* ---- CircularBuffer fields (circular_buffer.h)
    buffer,        \* std::vector<int16_t>, indexed from 0
    readPos,
    writePos,
    bufferSize,
    bufferMask,
    closed,
    \* ---- the two condition variables: threads with a pending notification
    signalled,
    \* ---- the writer thread's call of write()
    wpc,           \* "idle" | "lock" | "wait"
    wdata,         \* the caller's data array
    wsize,         \* the size argument
    written,       \* the local `written`
    wret,          \* the value the last call returned
    \* ---- the reader thread's call of read()
    rpc,           \* "idle" | "wait"
    rdata,         \* the caller's data array, as filled so far
    rsize,
    rread,         \* the local `read`
    rret,
    \* ---- history of the run
    issued,        \* samples handed to write() so far
    accepted,      \* samples of the returned write() calls, first `wret` of each
    delivered,     \* samples returned by the returned read() calls
    closeCount,    \* close() calls that have returned
    wAfterClose,   \* the current/last write() began after a close() had returned
    rAfterClose,   \* the current/last read() began after a close() had returned
    rAvailAtCall,  \* unread samples when that read() began (-1: began before close)
    rSawEmpty,     \* the current/last read() found the buffer empty
    \* ---- the constructor call
    ctorPc,        \* "new" | "constructed" | "threw"
    ctorSize,
    \* ---- ErrorHandler fields (error_handler.h)
    globalState,
    lastError,
    errorMutex,    \* the thread that owns the std::mutex, or "none"
    \* ---- each thread's call of reportError()
    ePc,           \* where the thread is in reportError / recoverFromError
    eErr,          \* the `err` argument
    eRecovered,    \* the local `recovered` of recoverFromError
    eSet,          \* the states this call has passed to setGlobalState
    \* ---- the watchdog (error_handler.h)
    watchdogRunning,
    watchdogPing,
    wdPc,          \* the watchdog thread: "none" | "loop" | "stopTest" |
                   \* "check" | "report" | "exited"
    swPc,          \* the thread that calls stopWatchdog(): "out" | "join"
    pinged,        \* pingWatchdog() has been called since the watchdog last
                   \* tested watchdogPing
    \* ---- BeamFormerApp (beamformer_app.h) and the signal handler
    appRunning,    \* BeamFormerApp::running
    sig_received,
    stopping,      \* the static `stopping` of sigHandler
    \* ---- the main thread (main.cpp)
    mainPc,        \* "init" | "start" | "setRunning" | "wait" | "dtor" |
                   \* "exited"
    mainAt,        \* the step of init() / start() that is next
    initOrder,     \* the stages whose init() has returned true, in order
    startOrder,    \* the threads started by start(), in order
    \* ---- the calls of BeamFormerApp::stop(), by the main thread's
    \* ---- destructor and by the signal handler
    stopPc,        \* "none" | "test" | "store" | "body" | "clear" | "join" |
                   \* "done" | "hung" | "threw"
    stopAt,        \* the step of the shutdown body that is next
    stopOrder,     \* the steps of the shutdown body the call has made
    hHost,         \* the thread the signal handler runs on, or "none"
    \* ---- the three stages (alsa_common.h, beamformer.h)
    stRunning,     \* the stage's `running`
    stState,       \* the stage's own `state`
    stPc,          \* the stage's thread
    \* ---- the two channels as the stages see them
    chClosed,
    chFill,        \* samples stored and not yet read
    faults,        \* failed transfers and processing steps so far
    periods,       \* non-silent periods captured so far
    \* ---- the hardware sessions as the stage threads see them
    outRead,       \* outputLoop's local `read`
    outWrites,     \* the snd_pcm_writei calls of outputLoop so far
    resumeTries,   \* -EAGAIN answers to snd_pcm_resume in the recovery in
                   \* progress
    capRecov,      \* captureLoop: what its call of xrunRecovery in this
                   \* iteration did and returned
    \* ---- the end of the process
    mainRet,       \* the value main has returned, or -1
    \* ---- BeamFormer (beamformer.h)
    frameCount,    \* the static `frameCount` of processingLoop
    bfIndex,       \* periods processed since the last start() of the stage
    currentSteeringAngle,
    bfOwner,       \* a caller of BeamFormer::start/stop: "out" | "join"
    dspAcquired,   \* per DSP resource: allocations that succeeded
    dspReleased,   \* per DSP resource: times it was freed or destroyed
    dAngle,        \* calculateDelaysForAngles: the loop variable `angle`
    dDelay         \* the entry of delayPerAngle stored last

cbFields == <<buffer, readPos, writePos, bufferSize, bufferMask, closed>>
wVars == <<wpc, wdata, wsize, written, wret, wAfterClose>>
rVars == <<rpc, rdata, rsize, rread, rret, rAfterClose, rAvailAtCall, rSawEmpty>>
histVars == <<issued, accepted, delivered, closeCount>>
ctorVars == <<ctorPc, ctorSize>>
cbVars == <<cbFields, signalled, wVars, rVars, histVars>>

ehVars == <<globalState, lastError, errorMutex, ePc, eErr, eRecovered, eSet>>
wdFields == <<watchdogRunning, watchdogPing, wdPc, pinged>>
wdVars == <<wdFields, swPc>>
appFields == <<appRunning, sig_received, stopping>>
mainVars == <<mainPc, mainAt, initOrder, startOrder>>
stopVars == <<stopPc, stopAt, stopOrder, hHost>>
stageVars == <<stRunning, stState, stPc>>
chanVars == <<chClosed, chFill>>
envVars == <<faults, periods>>
hwVars == <<outRead, outWrites, resumeTries, capRecov>>
\* What a step that makes no hardware transfer and does not end main leaves
\* alone.
bfVars == <<frameCount, bfIndex, currentSteeringAngle, bfOwner>>
dspVars == <<dspAcquired, dspReleased>>
delayVars == <<dAngle, dDelay>>
idleVars == <<envVars, hwVars, mainRet, bfVars, dspVars, delayVars>>
appVars == <<appFields, mainVars, stopVars, stageVars, chanVars, idleVars>>
\* What the actions of the channel leave alone.
notCbVars == <<ctorVars, ehVars, wdVars, appVars>>
\* What the steps of reportError leave alone.
notEhVars == <<cbVars, ctorVars, wdVars, appVars>>
\* What the watchdog and the calls of its functions leave alone.
notWdVars == <<cbVars, ctorVars, ehVars, appVars>>

vars == <<cbVars, ctorVars, ehVars, wdVars, appVars>>

\* Some close() call has returned.
closeDone == closeCount > 0

(***************************************************************************)
(* size_t arithmetic                                                       *)
(***************************************************************************)
Min(a, b) == IF a < b THEN a ELSE b

RECURSIVE BitAndRec(_, _, _)
BitAndRec(a, b, k) ==
    IF k = 0 THEN 0
    ELSE (a % 2) * (b % 2) + 2 * BitAndRec(a \div 2, b \div 2, k - 1)

\* The table of a & b for all size_t values, computed once.
AndTable ==
    [a \in 0 .. SIZE_MAX |-> [b \in 0 .. SIZE_MAX |-> BitAndRec(a, b, SizeTBits)]]

\* a & b on size_t
BitAnd(a, b) == AndTable[a % SIZE_MOD][b % SIZE_MOD]

\* a - b and a + b on size_t (wrap around)
Sub(a, b) == (a - b) % SIZE_MOD
Add(a, b) == (a + b) % SIZE_MOD

(***************************************************************************)
(* CircularBuffer::availableRead / availableWrite                          *)
(***************************************************************************)
availableRead(rp, wp) == BitAnd(Sub(wp, rp), bufferMask)

\* The writable space without the reserved slot.
availableWriteNoReserve(rp, wp) == Sub(bufferSize, availableRead(rp, wp))

availableWrite(rp, wp) == Sub(Sub(bufferSize, 1), availableRead(rp, wp))

(***************************************************************************)
(* CircularBuffer::CircularBuffer                                          *)
(***************************************************************************)
\* The constructor's test `(size & (size - 1)) != 0`, on size_t.
ctorRejects(size) == BitAnd(size, Sub(size, 1)) # 0

\* The fields of a channel constructed with `size` (vector::resize fills
\* the new elements with 0).
ctorFields(size) ==
    [buffer |-> [j \in 0 .. (size - 1) |-> 0],
     readPos |-> 0,
     writePos |-> 0,
     bufferSize |-> size,
     bufferMask |-> Sub(size, 1),
     closed |-> FALSE]

(***************************************************************************)
(* CircularBuffer::write                                                   *)
(***************************************************************************)
\* `if (closed) return 0;` before the lock is taken
writeEntryClosed == closed

\* `while (written < size && !closed)`
writeLoopCond(w, size) == w < size /\ ~closed

\* `std::min(available, size - written)`
writeToWrite(available, w, size) == Min(available, size - w)

\* The store without the offset of what is already written.
writeStoreNoOffset(buf, wp, data, w, toWrite) ==
    [j \in DOMAIN buf |->
        IF \E i \in 0 .. (toWrite - 1) : j = BitAnd(Add(wp, i), bufferMask)
        THEN LET i == CHOOSE i \in 0 .. (toWrite - 1) :
                          j = BitAnd(Add(wp, i), bufferMask)
             IN  data[i + 1]
        ELSE buf[j]]

\* `for (i...) buffer[(writePos + i) & bufferMask] = data[written + i];`
writeStore(buf, wp, data, w, toWrite) ==
    [j \in DOMAIN buf |->
        IF \E i \in 0 .. (toWrite - 1) : j = BitAnd(Add(wp, i), bufferMask)
        THEN LET i == CHOOSE i \in 0 .. (toWrite - 1) :
                          j = BitAnd(Add(wp, i), bufferMask)
             IN  data[w + i + 1]
        ELSE buf[j]]

\* `writePos = (writePos + toWrite) & bufferMask;`
advancePos(pos, n) == BitAnd(Add(pos, n), bufferMask)

\* A write() that gives up when the buffer is full instead of waiting.
RECURSIVE writeLoopNoWait(_, _, _)
writeLoopNoWait(s, size, data) ==
    IF ~writeLoopCond(s.written, size)
    THEN [s EXCEPT !.exit = "return"]
    ELSE LET available == availableWrite(readPos, s.writePos) IN
         IF available = 0
         THEN [s EXCEPT !.exit = "return"]
         ELSE LET toWrite == writeToWrite(available, s.written, size) IN
              writeLoopNoWait([s EXCEPT
                            !.buffer = writeStore(s.buffer, s.writePos, data,
                                                  s.written, toWrite),
                            !.writePos = advancePos(s.writePos, toWrite),
                            !.written = s.written + toWrite,
                            !.notified = TRUE],
                        size, data)

\* The loop of write() from one point where the writer holds the mutex to
\* the next point where it gives it up: the return, or the wait_for.
RECURSIVE writeLoop(_, _, _)
writeLoop(s, size, data) ==
    IF ~writeLoopCond(s.written, size)
    THEN [s EXCEPT !.exit = "return"]
    ELSE LET available == availableWrite(readPos, s.writePos) IN
         IF available = 0
         THEN [s EXCEPT !.exit = "wait"]
         ELSE LET toWrite == writeToWrite(available, s.written, size) IN
              writeLoop([s EXCEPT
                            !.buffer = writeStore(s.buffer, s.writePos, data,
                                                  s.written, toWrite),
                            !.writePos = advancePos(s.writePos, toWrite),
                            !.written = s.written + toWrite,
                            !.notified = TRUE],
                        size, data)

\* wait_for(lock, 100 ms) returns on a notification or when the tick is over.
waitReturns(t) == t \in signalled \/ TRUE

\* What a lock-held segment of write() leaves behind.
writeSegment(r) ==
    /\ buffer' = r.buffer
    /\ writePos' = r.writePos
    /\ written' = r.written
    /\ signalled' = (signalled \ {"writer"}) \cup
                    (IF r.notified /\ rpc = "wait" THEN {"reader"} ELSE {})
    /\ IF r.exit = "return"
       THEN /\ wpc' = "idle"
            /\ wret' = r.written
            /\ accepted' = accepted \o SubSeq(wdata, 1, r.written)
       ELSE /\ wpc' = "wait"
            /\ UNCHANGED <<wret, accepted>>
    /\ UNCHANGED <<readPos, bufferSize, bufferMask, closed>>
    /\ UNCHANGED <<wdata, wsize, wAfterClose, issued, delivered, closeCount>>
    /\ UNCHANGED <<rVars, notCbVars>>

\* The writer thread calls write(data, n); the closed flag is read before
\* the mutex is taken.
writeCall(n) ==
    /\ wpc = "idle"
    /\ issued + n <= MaxSamples
    /\ wdata' = [i \in 1 .. n |-> issued + i]
    /\ wsize' = n
    /\ issued' = issued + n
    /\ written' = 0
    /\ wAfterClose' = closeDone
    /\ IF writeEntryClosed
       THEN /\ wpc' = "idle"
            /\ wret' = 0
       ELSE /\ wpc' = "lock"
            /\ UNCHANGED wret
    /\ UNCHANGED <<cbFields, signalled, rVars, accepted, delivered, closeCount>>
    /\ UNCHANGED notCbVars

\* The writer gets the mutex and runs the loop for the first time.
writeBegin ==
    /\ wpc = "lock"
    /\ writeSegment(writeLoop([buffer |-> buffer, writePos |-> writePos,
                               written |-> 0, notified |-> FALSE,
                               exit |-> "none"], wsize, wdata))

\* The writer's wait_for returns (with the mutex held again):
\* `if (closed) break; continue;`
writeWake ==
    /\ wpc = "wait"
    /\ waitReturns("writer")
    /\ LET s == [buffer |-> buffer, writePos |-> writePos,
                 written |-> written, notified |-> FALSE, exit |-> "none"]
       IN  IF closed
           THEN writeSegment([s EXCEPT !.exit = "return"])
           ELSE writeSegment(writeLoop(s, wsize, wdata))

(***************************************************************************)
(* CircularBuffer::read                                                    *)
(***************************************************************************)
\* A read() that keeps waiting on an empty buffer whatever the flag says.
readEmptyBreakNever == FALSE

\* `if (closed) break;` when the buffer is found empty
readEmptyBreak == closed

\* `if (closed) break;` after the wait
readWakeBreak == closed

\* `std::min(available, size - read)`
readToRead(available, rd, size) == Min(available, size - rd)

\* `for (i...) data[read + i] = buffer[(readPos + i) & bufferMask];`
readLoad(rp, toRead) ==
    [i \in 1 .. toRead |-> buffer[BitAnd(Add(rp, i - 1), bufferMask)]]

\* A read() whose loop stops as soon as the channel is closed, like write()'s.
RECURSIVE readLoopStopsWhenClosed(_, _)
readLoopStopsWhenClosed(s, size) ==
    IF ~(s.rread < size /\ ~closed)
    THEN [s EXCEPT !.exit = "return"]
    ELSE LET available == availableRead(s.readPos, writePos) IN
         IF available = 0
         THEN IF readEmptyBreak
              THEN [s EXCEPT !.sawEmpty = TRUE, !.exit = "return"]
              ELSE [s EXCEPT !.sawEmpty = TRUE, !.exit = "wait"]
         ELSE LET toRead == readToRead(available, s.rread, size) IN
              readLoopStopsWhenClosed([s EXCEPT
                           !.rdata = s.rdata \o readLoad(s.readPos, toRead),
                           !.readPos = advancePos(s.readPos, toRead),
                           !.rread = s.rread + toRead,
                           !.notified = TRUE],
                       size)

RECURSIVE readLoop(_, _)
readLoop(s, size) ==
    IF ~(s.rread < size)
    THEN [s EXCEPT !.exit = "return"]
    ELSE LET available == availableRead(s.readPos, writePos) IN
         IF available = 0
         THEN IF readEmptyBreak
              THEN [s EXCEPT !.sawEmpty = TRUE, !.exit = "return"]
              ELSE [s EXCEPT !.sawEmpty = TRUE, !.exit = "wait"]
         ELSE LET toRead == readToRead(available, s.rread, size) IN
              readLoop([s EXCEPT
                           !.rdata = s.rdata \o readLoad(s.readPos, toRead),
                           !.readPos = advancePos(s.readPos, toRead),
                           !.rread = s.rread + toRead,
                           !.notified = TRUE],
                       size)

\* What a lock-held segment of read() leaves behind.
readSegment(r) ==
    /\ readPos' = r.readPos
    /\ rread' = r.rread
    /\ rdata' = r.rdata
    /\ rSawEmpty' = r.sawEmpty
    /\ signalled' = (signalled \ {"reader"}) \cup
                    (IF r.notified /\ wpc = "wait" THEN {"writer"} ELSE {})
    /\ IF r.exit = "return"
       THEN /\ rpc' = "idle"
            /\ rret' = r.rread
            /\ delivered' = delivered \o r.rdata
       ELSE /\ rpc' = "wait"
            /\ UNCHANGED <<rret, delivered>>
    /\ UNCHANGED <<buffer, writePos, bufferSize, bufferMask, closed>>
    /\ UNCHANGED <<wVars, issued, accepted, closeCount, notCbVars>>

\* The reader thread calls read(data, n): it takes the mutex and runs the
\* loop for the first time.
readCall(n) ==
    /\ rpc = "idle"
    /\ rsize' = n
    /\ rAfterClose' = (closeDone)
    /\ rAvailAtCall' = IF closeDone THEN availableRead(readPos, writePos)
                       ELSE -1
    /\ readSegment(readLoop([readPos |-> readPos, rread |-> 0, rdata |-> <<>>,
                             notified |-> FALSE, sawEmpty |-> FALSE,
                             exit |-> "none"], n))

\* The reader's wait_for returns (with the mutex held again):
\* `if (closed) break; continue;`
readWake ==
    /\ rpc = "wait"
    /\ waitReturns("reader")
    /\ UNCHANGED <<rsize, rAfterClose, rAvailAtCall>>
    /\ LET s == [readPos |-> readPos, rread |-> rread, rdata |-> rdata,
                 notified |-> FALSE, sawEmpty |-> rSawEmpty, exit |-> "none"]
       IN  IF readWakeBreak
           THEN readSegment([s EXCEPT !.exit = "return"])
           ELSE readSegment(readLoop(s, rsize))

(***************************************************************************)
(* CircularBuffer::close                                                   *)
(***************************************************************************)
\* A close() that notifies but leaves the flag as it is.
closeNoFlag ==
    /\ closeCount < MaxCloses
    /\ signalled' = (IF rpc = "wait" THEN {"reader"} ELSE {}) \cup
                    (IF wpc = "wait" THEN {"writer"} ELSE {})
    /\ closeCount' = closeCount + 1
    /\ UNCHANGED <<buffer, readPos, writePos, bufferSize, bufferMask, closed>>
    /\ UNCHANGED <<wVars, rVars, issued, accepted, delivered, notCbVars>>

\* A close() that also empties the buffer.
closeResets ==
    /\ closeCount < MaxCloses
    /\ closed' = TRUE
    /\ readPos' = 0
    /\ writePos' = 0
    /\ signalled' = (IF rpc = "wait" THEN {"reader"} ELSE {}) \cup
                    (IF wpc = "wait" THEN {"writer"} ELSE {})
    /\ closeCount' = closeCount + 1
    /\ UNCHANGED <<buffer, bufferSize, bufferMask>>
    /\ UNCHANGED <<wVars, rVars, issued, accepted, delivered, notCbVars>>

\* close(), called by the thread that stops the pipeline and again by the
\* destructor: under the mutex, set the flag and notify_all both conditions.
close ==
    /\ closeCount < MaxCloses
    /\ closed' = TRUE
    /\ signalled' = (IF rpc = "wait" THEN {"reader"} ELSE {}) \cup
                    (IF wpc = "wait" THEN {"writer"} ELSE {})
    /\ closeCount' = closeCount + 1
    /\ UNCHANGED <<buffer, readPos, writePos, bufferSize, bufferMask>>
    /\ UNCHANGED <<wVars, rVars, issued, accepted, delivered, notCbVars>>

(***************************************************************************)
(* ErrorHandler (error_handler.cpp)                                        *)
(***************************************************************************)
\* The threads that call reportError: the capture thread, the processing
\* thread and the watchdog thread.
Reporters == {"capture", "processing", "watchdog"}

ErrorTypes == {"ERROR_NONE", "ERROR_ALSA_XRUN", "ERROR_ALSA_SUSPEND",
               "ERROR_PROCESSING", "ERROR_SYSTEM"}

\* The kinds each thread reports: a hardware fault of the capture session,
\* a fault of the processing of a period, the watchdog's timeout.
ReportKinds(t) ==
    CASE t = "capture" -> {"ERROR_ALSA_XRUN", "ERROR_ALSA_SUSPEND"}
      [] t = "processing" -> {"ERROR_PROCESSING"}
      [] t = "watchdog" -> {"ERROR_SYSTEM"}

AppStates == {"STATE_INIT", "STATE_RUNNING", "STATE_ERROR", "STATE_RECOVERY",
              "STATE_TERMINATING"}

\* ErrorHandler::ErrorHandler
ehInit ==
    /\ globalState = "STATE_INIT"
    /\ lastError = "ERROR_NONE"
    /\ errorMutex = "none"
    /\ ePc = [t \in Reporters |-> "idle"]
    /\ eErr = [t \in Reporters |-> "ERROR_NONE"]
    /\ eRecovered = [t \in Reporters |-> FALSE]
    /\ eSet = [t \in Reporters |-> <<>>]
    /\ watchdogRunning = FALSE
    /\ watchdogPing = FALSE
    /\ pinged = FALSE
    /\ wdPc = "none"
    /\ swPc = "out"

\* An exception that leaves a thread's function or the signal handler ends
\* the process (std::terminate): no thread runs after it.
aborted ==
    \/ \E t \in Reporters : ePc[t] = "threw"
    \/ \E c \in DOMAIN stopPc : stopPc[c] = "threw"

\* Thread t can take a step: the process is alive, and t is not the thread
\* that the signal handler has interrupted.
Runs(t) ==
    /\ ~aborted
    /\ mainPc # "exited"
    /\ hHost # t

\* ErrorHandler::setGlobalState, called by thread t
setGlobalState(t, state) ==
    /\ globalState' = state
    /\ eSet' = [eSet EXCEPT ![t] = Append(@, state)]

\* The `switch (lastError)` of recoverFromError: the value of `recovered`.
recoveredFor(err) ==
    CASE err = "ERROR_ALSA_XRUN" -> TRUE
      [] err = "ERROR_ALSA_SUSPEND" -> TRUE
      [] err = "ERROR_PROCESSING" -> FALSE
      [] err = "ERROR_SYSTEM" -> FALSE
      [] OTHER -> FALSE

\* What std::mutex::lock() does when the calling thread already owns the
\* mutex.  The behaviour is undefined: the thread blocks on itself for ever,
\* or lock() throws std::system_error (resource_deadlock_would_occur), or
\* lock() returns as if the mutex had been taken.
RelockOutcomes == {"deadlock", "throw", "proceed"}

\* Thread t enters reportError(err, details); the lock_guard is next.
reEnter(t, err) ==
    /\ ePc[t] = "idle"
    /\ ePc' = [ePc EXCEPT ![t] = "lock"]
    /\ eErr' = [eErr EXCEPT ![t] = err]
    /\ eRecovered' = [eRecovered EXCEPT ![t] = FALSE]
    /\ eSet' = [eSet EXCEPT ![t] = <<>>]
    /\ UNCHANGED <<globalState, lastError, errorMutex>>

\* A thread calls reportError(err, details).
reCall(t, err) ==
    /\ Runs(t)
    /\ reEnter(t, err)
    /\ UNCHANGED notEhVars

\* `std::lock_guard<std::mutex> lock(errorMutex);` in reportError
reLock(t) ==
    /\ Runs(t)
    /\ ePc[t] = "lock"
    /\ errorMutex = "none"
    /\ errorMutex' = t
    /\ ePc' = [ePc EXCEPT ![t] = "setLast"]
    /\ UNCHANGED <<globalState, lastError, eErr, eRecovered, eSet>>
    /\ UNCHANGED notEhVars

\* `lastError = err;`
reSetLast(t) ==
    /\ Runs(t)
    /\ ePc[t] = "setLast"
    /\ lastError' = eErr[t]
    /\ ePc' = [ePc EXCEPT ![t] = "setError"]
    /\ UNCHANGED <<globalState, errorMutex, eErr, eRecovered, eSet>>
    /\ UNCHANGED notEhVars

\* `setGlobalState(STATE_ERROR);`
reSetError(t) ==
    /\ Runs(t)
    /\ ePc[t] = "setError"
    /\ setGlobalState(t, "STATE_ERROR")
    /\ ePc' = [ePc EXCEPT ![t] = "recover"]
    /\ UNCHANGED <<lastError, errorMutex, eErr, eRecovered>>
    /\ UNCHANGED notEhVars

\* `if (recoverFromError())`: the call, and the callee's
\* `std::lock_guard<std::mutex> lock(errorMutex);` while the caller holds
\* errorMutex.  A throw unwinds reportError, whose lock_guard unlocks.
reRecover(t, outcome) ==
    /\ Runs(t)
    /\ ePc[t] = "recover"
    /\ IF errorMutex = t
       THEN CASE outcome = "deadlock" ->
                   /\ ePc' = [ePc EXCEPT ![t] = "deadlocked"]
                   /\ UNCHANGED errorMutex
              [] outcome = "throw" ->
                   /\ ePc' = [ePc EXCEPT ![t] = "threw"]
                   /\ errorMutex' = "none"
              [] outcome = "proceed" ->
                   /\ ePc' = [ePc EXCEPT ![t] = "recSetRecovery"]
                   /\ UNCHANGED errorMutex
       ELSE /\ errorMutex = "none"
            /\ outcome = "proceed"
            /\ errorMutex' = t
            /\ ePc' = [ePc EXCEPT ![t] = "recSetRecovery"]
    /\ UNCHANGED <<globalState, lastError, eErr, eRecovered, eSet>>
    /\ UNCHANGED notEhVars

\* `setGlobalState(STATE_RECOVERY);` in recoverFromError
recSetRecovery(t) ==
    /\ Runs(t)
    /\ ePc[t] = "recSetRecovery"
    /\ setGlobalState(t, "STATE_RECOVERY")
    /\ ePc' = [ePc EXCEPT ![t] = "recSwitch"]
    /\ UNCHANGED <<lastError, errorMutex, eErr, eRecovered>>
    /\ UNCHANGED notEhVars

\* `switch (lastError) { ... }`
recSwitch(t) ==
    /\ Runs(t)
    /\ ePc[t] = "recSwitch"
    /\ eRecovered' = [eRecovered EXCEPT ![t] = recoveredFor(lastError)]
    /\ ePc' = [ePc EXCEPT ![t] = "recCheck"]
    /\ UNCHANGED <<globalState, lastError, errorMutex, eErr, eSet>>
    /\ UNCHANGED notEhVars

\* `if (!recovered) setGlobalState(STATE_ERROR); return recovered;` and the
\* callee's lock_guard unlocks errorMutex.
recReturn(t) ==
    /\ Runs(t)
    /\ ePc[t] = "recCheck"
    /\ IF ~eRecovered[t]
       THEN setGlobalState(t, "STATE_ERROR")
       ELSE UNCHANGED <<globalState, eSet>>
    /\ errorMutex' = "none"
    /\ ePc' = [ePc EXCEPT ![t] = "afterRecover"]
    /\ UNCHANGED <<lastError, eErr, eRecovered>>
    /\ UNCHANGED notEhVars

\* `if (recoverFromError()) { ...; setGlobalState(STATE_RUNNING); }`, the
\* return of reportError, and its lock_guard unlocks errorMutex.
reReturn(t) ==
    /\ Runs(t)
    /\ ePc[t] = "afterRecover"
    /\ IF eRecovered[t]
       THEN setGlobalState(t, "STATE_RUNNING")
       ELSE UNCHANGED <<globalState, eSet>>
    /\ errorMutex' = "none"
    /\ ePc' = [ePc EXCEPT ![t] = "idle"]
    /\ UNCHANGED <<lastError, eErr, eRecovered>>
    /\ UNCHANGED notEhVars

(***************************************************************************)
(* The watchdog (error_handler.cpp)                                        *)
(***************************************************************************)
\* ErrorHandler::startWatchdog: the fields it stores and the thread it
\* creates.
startWatchdog ==
    IF watchdogRunning
    THEN UNCHANGED wdFields
    ELSE /\ watchdogRunning' = TRUE
         /\ watchdogPing' = TRUE
         /\ wdPc' = "loop"
         /\ UNCHANGED pinged

\* ErrorHandler::stopWatchdog up to the join: TRUE when the call goes on to
\* join the thread, FALSE when it returns at `if (!watchdogRunning)`.
stopWatchdogJoins == watchdogRunning

stopWatchdogBegin ==
    /\ watchdogRunning' = FALSE
    /\ UNCHANGED <<watchdogPing, wdPc, pinged>>

\* `watchdogThread.join()` returns once the thread has left watchdogLoop.
stopWatchdogJoin ==
    /\ wdPc = "exited"
    /\ wdPc' = "none"
    /\ UNCHANGED <<watchdogRunning, watchdogPing, pinged>>

\* ErrorHandler::pingWatchdog
pingWatchdog ==
    /\ watchdogPing' = TRUE
    /\ pinged' = TRUE
    /\ UNCHANGED <<watchdogRunning, wdPc>>

\* The owner of the ErrorHandler calls startWatchdog().
wdStart ==
    /\ ~aborted
    /\ swPc = "out"
    /\ startWatchdog
    /\ UNCHANGED <<swPc, notWdVars>>

\* The owner calls stopWatchdog().
wdStop ==
    /\ ~aborted
    /\ swPc = "out"
    /\ IF stopWatchdogJoins
       THEN stopWatchdogBegin /\ swPc' = "join"
       ELSE UNCHANGED wdVars
    /\ UNCHANGED notWdVars

\* The owner's stopWatchdog() comes back from join() and returns.
wdJoin ==
    /\ ~aborted
    /\ swPc = "join"
    /\ stopWatchdogJoin
    /\ swPc' = "out"
    /\ UNCHANGED notWdVars

\* Some thread calls pingWatchdog().
wdPing ==
    /\ ~aborted
    /\ pingWatchdog
    /\ UNCHANGED <<swPc, notWdVars>>

\* watchdogLoop: `while (watchdogRunning)` and, inside the loop, the `for`
\* loop of 100 ms sleeps, which ends when WATCHDOG_TIMEOUT_MS have passed or
\* watchdogRunning is found false.
wdSleep ==
    /\ Runs("watchdog")
    /\ wdPc = "loop"
    /\ wdPc' = IF watchdogRunning THEN "stopTest" ELSE "exited"
    /\ UNCHANGED <<watchdogRunning, watchdogPing, swPc, pinged>>
    /\ UNCHANGED notWdVars

\* `if (!watchdogRunning) break;`
wdStopTest ==
    /\ Runs("watchdog")
    /\ wdPc = "stopTest"
    /\ wdPc' = IF watchdogRunning THEN "check" ELSE "exited"
    /\ UNCHANGED <<watchdogRunning, watchdogPing, swPc, pinged>>
    /\ UNCHANGED notWdVars

\* `if (!watchdogPing) { ...; reportError(ERROR_SYSTEM, ...); }`
wdCheck ==
    /\ Runs("watchdog")
    /\ wdPc = "check"
    /\ wdPc' = "report"
    /\ IF ~watchdogPing
       THEN reEnter("watchdog", "ERROR_SYSTEM")
       ELSE UNCHANGED ehVars
    /\ pinged' = FALSE
    /\ UNCHANGED <<watchdogRunning, watchdogPing, swPc>>
    /\ UNCHANGED <<cbVars, ctorVars, appVars>>

\* reportError, if it was called, has returned; `watchdogPing = false;` and
\* the next window begins.
wdReset ==
    /\ Runs("watchdog")
    /\ wdPc = "report"
    /\ ePc["watchdog"] = "idle"
    /\ watchdogPing' = FALSE
    /\ wdPc' = "loop"
    /\ UNCHANGED <<watchdogRunning, swPc, pinged>>
    /\ UNCHANGED notWdVars

(***************************************************************************)
(* The stages and BeamFormerApp (audio_capture.cpp, beamformer.cpp,        *)
(* alsa_output.cpp, beamformer_app.cpp, main.cpp)                          *)
(***************************************************************************)
Stages == {"capture", "processing", "output"}
Chans == {"captureToBeamformer", "beamformerToOutput"}
\* The calls of BeamFormerApp::stop(): from ~BeamFormerApp on the main
\* thread, and from sigHandler.
Ctx == {"main", "handler"}

\* The states in which a stage loop sleeps instead of working.
Halting == {"STATE_ERROR", "STATE_RECOVERY", "STATE_TERMINATING"}

\* ---- BeamFormer::calculateDelaysForAngles --------------------------------
\* sin of 0, 1, ..., 90 degrees in units of 1/10000.
SinTable ==
    << 0, 175, 349, 523, 698, 872, 1045, 1219, 1392, 1564,
       1736, 1908, 2079, 2250, 2419, 2588, 2756, 2924, 3090, 3256,
       3420, 3584, 3746, 3907, 4067, 4226, 4384, 4540, 4695, 4848,
       5000, 5150, 5299, 5446, 5592, 5736, 5878, 6018, 6157, 6293,
       6428, 6561, 6691, 6820, 6947, 7071, 7193, 7314, 7431, 7547,
       7660, 7771, 7880, 7986, 8090, 8192, 8290, 8387, 8480, 8572,
       8660, 8746, 8829, 8910, 8988, 9063, 9135, 9205, 9272, 9336,
       9397, 9455, 9511, 9563, 9613, 9659, 9703, 9744, 9781, 9816,
       9848, 9877, 9903, 9925, 9945, 9962, 9976, 9986, 9994, 9998,
       10000 >>

\* sin of a whole number of degrees between -180 and 180, in units of
\* 1/10000.
sinE4(deg) ==
    LET m == IF deg < 0 THEN 0 - deg ELSE deg
        v == IF m > 90 THEN SinTable[180 - m + 1] ELSE SinTable[m + 1]
    IN  IF deg < 0 THEN 0 - v ELSE v

\* `(angle - 90)`: the angle from broadside of `angleRad`.
angleUnshifted(angle) == angle

angleFromBroadside(angle) == angle - 90

\* C round() of num / den for den > 0: to the nearest integer, halves away
\* from zero.
round(num, den) ==
    LET m == IF num < 0 THEN 0 - num ELSE num
        q == (m + den \div 2) \div den
    IN  IF num < 0 THEN 0 - q ELSE q

\* `delaySeconds * SAMPLE_RATE` as a fraction: MIC_DISTANCE * sin(angleRad) /
\* SOUND_SPEED * SAMPLE_RATE, with the sample rate in kHz.
delaySamplesNum(angle) ==
    MIC_DISTANCE_E4 * (SAMPLE_RATE \div 1000) * sinE4(angleFromBroadside(angle))

delaySamplesDen == 10 * SOUND_SPEED * 10000

\* The two `if`s that keep an entry within -MAX_STEERING_DELAY ..
\* MAX_STEERING_DELAY.
clampDelay(d) ==
    IF d > MAX_STEERING_DELAY THEN MAX_STEERING_DELAY
    ELSE IF d < 0 - MAX_STEERING_DELAY THEN 0 - MAX_STEERING_DELAY
    ELSE d

\* The value the loop stores in delayPerAngle[angle].
delayPerAngle(angle) ==
    clampDelay(round(delaySamplesNum(angle), delaySamplesDen))

\* The loop of calculateDelaysForAngles has ended.
delaysDone ==
    /\ dAngle = MAX_DOA_ANGLES
    /\ dDelay = delayPerAngle(MAX_DOA_ANGLES - 1)

\* One turn of `for (int angle = 0; angle <= 180; angle++)`.
calcDelay ==
    /\ dAngle <= 180
    /\ dDelay' = delayPerAngle(dAngle)
    /\ dAngle' = dAngle + 1
    /\ UNCHANGED <<cbVars, ctorVars, ehVars, wdVars>>
    /\ UNCHANGED <<appFields, mainVars, stopVars, stageVars, chanVars>>
    /\ UNCHANGED <<envVars, hwVars, mainRet, bfVars, dspVars>>

\* BeamFormer::BeamFormer: `currentSteeringAngle(90)`
SteeringUnset == 0 - 1

SteeringAtStart == 90

\* The resources DspResources::init acquires, in the order it acquires them:
\* per channel the two transform buffers and the forward plan, then the
\* buffer and the plan of the backward transform.
DspOrder ==
    << "fftIn0", "fftOut0", "fftPlanFwd0", "fftIn1", "fftOut1", "fftPlanFwd1",
       "fftProcessed", "fftPlanBwd" >>

DspResources == {DspOrder[i] : i \in 1 .. Len(DspOrder)}

\* captureLoop has not called xrunRecovery in this iteration.
NoRecovery == [err |-> "none", resume |-> "none", prepare |-> "none", ok |-> TRUE]

\* The constructors of BeamFormerApp, of the stages and of the channels.
appInit ==
    /\ appRunning = FALSE
    /\ sig_received = FALSE
    /\ stopping = FALSE
    /\ mainPc = "init"
    /\ mainAt = 1
    /\ initOrder = <<>>
    /\ startOrder = <<>>
    /\ stopPc = [c \in Ctx |-> "none"]
    /\ stopAt = [c \in Ctx |-> 1]
    /\ stopOrder = [c \in Ctx |-> <<>>]
    /\ hHost = "none"
    /\ stRunning = [s \in Stages |-> FALSE]
    /\ stState = [s \in Stages |-> "STATE_INIT"]
    /\ stPc = [s \in Stages |-> "none"]
    /\ chClosed = [c \in Chans |-> FALSE]
    /\ chFill = [c \in Chans |-> 0]
    /\ faults = 0
    /\ periods = 0
    /\ outRead = 0
    /\ outWrites = <<>>
    /\ resumeTries = [s \in {"capture", "output"} |-> 0]
    /\ capRecov = NoRecovery
    /\ mainRet = -1
    /\ frameCount = 0
    /\ bfIndex = 0
    /\ currentSteeringAngle = SteeringAtStart
    /\ bfOwner = "out"
    /\ dspAcquired = [r \in DspResources |-> 0]
    /\ dspReleased = [r \in DspResources |-> 0]

\* ---- the channels as the stages use them --------------------------------
\* The samples of one period in a channel: FRAME_SIZE * NUM_CHANNELS between
\* capture and processing, FRAME_SIZE between processing and output.
periodSamples(c) ==
    IF c = "captureToBeamformer" THEN FRAME_SIZE * NUM_CHANNELS ELSE FRAME_SIZE

\* The samples a channel holds at most: its BUFFER_SIZE, a multiple of the
\* period, less the slot CircularBuffer keeps free.
chanCapacity(c) == (ChanPeriods + 1) * periodSamples(c) - 1

chanRoom(c) == chanCapacity(c) - chFill[c]

\* CircularBuffer::write of n samples returns when all of them are stored or
\* the channel is closed.
chanWriteReturns(c, n) == chClosed[c] \/ chanRoom(c) >= n

\* What write() has stored when it returns: all n samples on an open channel;
\* on a closed one nothing (closed at the call) or the part that fitted
\* before the close.
chanWrite(c, n) ==
    IF chClosed[c]
    THEN \E k \in {0} \cup (IF chanRoom(c) < n THEN {chanRoom(c)} ELSE {}) :
            chFill' = [chFill EXCEPT ![c] = @ + k]
    ELSE chFill' = [chFill EXCEPT ![c] = @ + n]

\* CircularBuffer::read of n samples returns when n samples are there or the
\* channel is closed.
chanReadReturns(c, n) == chFill[c] >= n \/ chClosed[c]

\* The number of samples the read returns.
chanReadCount(c, n) == IF chFill[c] >= n THEN n ELSE chFill[c]

chanRead(c, n) ==
    chFill' = [chFill EXCEPT ![c] = @ - chanReadCount(c, n)]

\* ---- the stage threads --------------------------------------------------
\* The first thing a stage does in an iteration it does not sleep through.
stageWork(s) ==
    CASE s = "capture" -> "io"
      [] s = "processing" -> "read"
      [] s = "output" -> "read"

\* `while (running) { if (state == STATE_ERROR || state == STATE_RECOVERY ||
\* state == STATE_TERMINATING) { sleep; continue; } ...`
stLoop(s) ==
    /\ Runs(s)
    /\ capRecov' = IF s = "capture" THEN NoRecovery ELSE capRecov
    /\ UNCHANGED <<envVars, outRead, outWrites, resumeTries, mainRet>>
    /\ UNCHANGED <<bfVars, dspVars, delayVars>>
    /\ stPc[s] = "loop"
    /\ stPc' = [stPc EXCEPT ![s] =
                  IF ~stRunning[s] THEN "exited"
                  ELSE IF stState[s] \in Halting THEN "loop"
                  ELSE stageWork(s)]
    /\ UNCHANGED <<stRunning, stState, chanVars, appFields, mainVars, stopVars>>
    /\ UNCHANGED <<cbVars, ctorVars, ehVars, wdVars>>

\* The negative results of snd_pcm_readi and snd_pcm_writei other than
\* -ESTRPIPE: an xrun, and any other error.
TransferErrors == {"EPIPE", "EIO"}

\* The errors xrunRecovery is called with: the results of snd_pcm_readi.
RecoveryErrors == TransferErrors \cup {"ESTRPIPE"}

\* AlsaDevice::xrunRecovery(err): the snd_pcm_prepare call it makes, if any,
\* with its answer, and whether it returns 0.  resumeOk is the answer of the
\* snd_pcm_resume call that ends the polling after -ESTRPIPE, prepareOk the
\* answer snd_pcm_prepare gives when it is called.
xrunRecoveryAlwaysPrepares(err, resumeOk, prepareOk) ==
    [prepare |-> IF prepareOk THEN "ok" ELSE "fail", ok |-> prepareOk]

xrunRecovery(err, resumeOk, prepareOk) ==
    LET prepared == [prepare |-> IF prepareOk THEN "ok" ELSE "fail",
                     ok |-> prepareOk]
    IN  CASE err = "EPIPE" -> prepared
          [] err = "ESTRPIPE" ->
                 IF resumeOk
                 THEN [prepare |-> "none", ok |-> TRUE]
                 ELSE prepared
          [] OTHER -> [prepare |-> "none", ok |-> FALSE]

\* The record of the call xrunRecovery(err) that captureLoop keeps.
recovery(err, resume, r) ==
    [err |-> err, resume |-> resume, prepare |-> r.prepare, ok |-> r.ok]

\* `size_t samplesToWrite = frames * channels;` for a transfer of `frames`
\* frames.
samplesToWrite(frames) == frames * NUM_CHANNELS

\* captureLoop forwards the period it got only when hasNonZeroSamples is
\* true: when one of the first samples is not zero.
capForwards(frames, silent) == frames > 0 /\ ~silent

\* captureLoop: snd_pcm_readi returns.  "data": a period with a non-zero
\* sample; "silent": a period of zero samples; "nodata": zero frames;
\* "recovered": an error that xrunRecovery repairs; "failed": an error it does
\* not repair, and reportError(ERROR_ALSA_XRUN) is called; "suspended":
\* -ESTRPIPE, and xrunRecovery begins to call snd_pcm_resume.
CaptureOutcomes == {"data", "silent", "nodata", "recovered", "failed", "suspended"}

capIo(outcome) ==
    /\ Runs("capture")
    /\ stPc["capture"] = "io"
    /\ CASE outcome = "data" ->
              /\ periods < MaxPeriods
              /\ periods' = periods + 1
              /\ UNCHANGED <<faults, ehVars>>
              /\ UNCHANGED capRecov
         [] outcome \in {"silent", "nodata"} ->
              UNCHANGED <<faults, periods, ehVars, capRecov>>
         [] outcome = "recovered" ->
              /\ \E err \in TransferErrors : \E prepareOk \in BOOLEAN :
                    LET r == xrunRecovery(err, FALSE, prepareOk) IN
                        /\ r.ok
                        /\ capRecov' = recovery(err, "none", r)
              /\ UNCHANGED <<faults, periods, ehVars>>
         [] outcome = "failed" ->
              /\ faults < MaxFaults
              /\ faults' = faults + 1
              /\ \E err \in TransferErrors : \E prepareOk \in BOOLEAN :
                    LET r == xrunRecovery(err, FALSE, prepareOk) IN
                        /\ ~r.ok
                        /\ capRecov' = recovery(err, "none", r)
              /\ reEnter("capture", "ERROR_ALSA_XRUN")
              /\ UNCHANGED periods
         [] outcome = "suspended" ->
              /\ faults < MaxFaults
              /\ faults' = faults + 1
              /\ UNCHANGED <<periods, ehVars, capRecov>>
    /\ stPc' = [stPc EXCEPT !["capture"] =
                  CASE outcome \in {"data", "silent"} ->
                          IF capForwards(FRAME_SIZE, outcome = "silent")
                          THEN "write" ELSE "loop"
                    [] outcome = "failed" -> "report"
                    [] outcome = "suspended" -> "resume"
                    [] OTHER -> "loop"]
    /\ UNCHANGED <<outRead, outWrites, resumeTries, mainRet>>
    /\ UNCHANGED <<bfVars, dspVars, delayVars>>
    /\ UNCHANGED <<stRunning, stState, chanVars, appFields, mainVars, stopVars>>
    /\ UNCHANGED <<cbVars, ctorVars, wdVars>>

\* What snd_pcm_resume and the snd_pcm_prepare after it answer: "EAGAIN",
\* resume is to be called again; "resumed", resume returned 0; "prepared",
\* resume failed and prepare succeeded; "failed", both failed.
ResumeResults == {"EAGAIN", "resumed", "prepared", "failed"}

\* xrunRecovery in the capture thread: one call of snd_pcm_resume in
\* `while ((err = snd_pcm_resume(handle)) == -EAGAIN) sleep(100 ms);` and
\* what follows it.  The loop goes on as long as the answer is -EAGAIN.
capResume(res) ==
    /\ Runs("capture")
    /\ stPc["capture"] = "resume"
    /\ resumeTries' = [resumeTries EXCEPT !["capture"] =
                          IF res = "EAGAIN" THEN @ + 1 ELSE 0]
    /\ IF res = "EAGAIN"
       THEN /\ resumeTries["capture"] < MaxResumes
            /\ UNCHANGED <<stPc, ehVars, capRecov>>
       ELSE LET r == xrunRecovery("ESTRPIPE", res = "resumed", res = "prepared")
            IN  /\ capRecov' = recovery("ESTRPIPE",
                                         IF res = "resumed" THEN "ok" ELSE "fail",
                                         r)
                /\ IF r.ok
                   THEN /\ stPc' = [stPc EXCEPT !["capture"] = "loop"]
                        /\ UNCHANGED ehVars
                   ELSE /\ stPc' = [stPc EXCEPT !["capture"] = "report"]
                        /\ reEnter("capture", "ERROR_ALSA_XRUN")
    /\ UNCHANGED <<envVars, outRead, outWrites, mainRet>>
    /\ UNCHANGED <<bfVars, dspVars, delayVars>>
    /\ UNCHANGED <<stRunning, stState, chanVars, appFields, mainVars, stopVars>>
    /\ UNCHANGED <<cbVars, ctorVars, wdVars>>

\* captureLoop: `outputBuffer->write(buffer.data(), samplesToWrite)` returns.
capWrite ==
    /\ Runs("capture")
    /\ UNCHANGED idleVars
    /\ stPc["capture"] = "write"
    /\ chanWriteReturns("captureToBeamformer", samplesToWrite(FRAME_SIZE))
    /\ chanWrite("captureToBeamformer", samplesToWrite(FRAME_SIZE))
    /\ stPc' = [stPc EXCEPT !["capture"] = "loop"]
    /\ UNCHANGED <<stRunning, stState, chClosed, appFields, mainVars, stopVars>>
    /\ UNCHANGED <<cbVars, ctorVars, ehVars, wdVars>>

\* reportError has returned to the stage: `state = STATE_ERROR; continue;`
stReported(s) ==
    /\ Runs(s)
    /\ UNCHANGED idleVars
    /\ stPc[s] = "report"
    /\ ePc[s] = "idle"
    /\ stState' = [stState EXCEPT ![s] = "STATE_ERROR"]
    /\ stPc' = [stPc EXCEPT ![s] = "loop"]
    /\ UNCHANGED <<stRunning, chanVars, appFields, mainVars, stopVars>>
    /\ UNCHANGED <<cbVars, ctorVars, ehVars, wdVars>>

\* `if (read < size) { if (inputBuffer->isClosed()) break; ...`
readEndsLoopNever(r, n, isClosed) == FALSE

readEndsLoop(r, n, isClosed) == r < n /\ isClosed

\* What a stage does after a read of r of n samples that does not end its
\* loop.  processingLoop sleeps and reads again after a short read;
\* outputLoop fills a short period up with zeros and writes it, and sleeps
\* and reads again when it got nothing.
afterRead(s, r, n) ==
    IF s = "processing"
    THEN IF r < n THEN "loop" ELSE "work"
    ELSE IF r < n /\ r = 0 THEN "loop" ELSE "io"

\* processingLoop and outputLoop: `inputBuffer->read(...)` of one period
\* returns.
stRead(s, c) ==
    /\ Runs(s)
    /\ stPc[s] = "read"
    /\ chanReadReturns(c, periodSamples(c))
    /\ chanRead(c, periodSamples(c))
    /\ LET r == chanReadCount(c, periodSamples(c)) IN
        /\ stPc' = [stPc EXCEPT ![s] =
                      IF readEndsLoop(r, periodSamples(c), chClosed[c])
                      THEN "exited"
                      ELSE afterRead(s, r, periodSamples(c))]
        /\ outRead' = IF s = "output" THEN r ELSE outRead
    /\ UNCHANGED <<envVars, outWrites, resumeTries, capRecov, mainRet>>
    /\ UNCHANGED <<bfVars, dspVars, delayVars>>
    /\ UNCHANGED <<stRunning, stState, chClosed, appFields, mainVars, stopVars>>
    /\ UNCHANGED <<cbVars, ctorVars, ehVars, wdVars>>

\* processingLoop: the `try` block up to the write.  "throw": an exception
\* is caught and reportError(ERROR_PROCESSING) is called.
ProcessingOutcomes == {"ok", "throw"}

\* `if (frameCount++ % 10 == 0)`: the periods on which the estimator runs.
DoaEvery == 10

estimatesDOA(count) == count % DoaEvery = 0

\* BeamFormer::estimateDOA
estimateDOA == 90

\* `if (angle >= 0 && angle <= 180) updateSteering(angle);`: the steering
\* angle after an estimate.
steeringAfter(current, angle) ==
    IF angle >= 0 /\ angle <= 180 THEN angle ELSE current

procWork(outcome) ==
    /\ Runs("processing")
    /\ stPc["processing"] = "work"
    /\ frameCount < MaxFrames
    /\ frameCount' = frameCount + 1
    /\ bfIndex' = bfIndex + 1
    /\ currentSteeringAngle' =
          IF estimatesDOA(frameCount)
          THEN steeringAfter(currentSteeringAngle, estimateDOA)
          ELSE currentSteeringAngle
    /\ UNCHANGED <<bfOwner, dspVars, delayVars>>
    /\ stPc' = [stPc EXCEPT !["processing"] =
                  IF outcome = "ok" THEN "write" ELSE "report"]
    /\ IF outcome = "throw"
       THEN /\ faults < MaxFaults
            /\ faults' = faults + 1
            /\ reEnter("processing", "ERROR_PROCESSING")
       ELSE UNCHANGED <<faults, ehVars>>
    /\ UNCHANGED <<periods, hwVars, mainRet>>
    /\ UNCHANGED <<stRunning, stState, chanVars, appFields, mainVars, stopVars>>
    /\ UNCHANGED <<cbVars, ctorVars, wdVars>>

\* processingLoop: `outputBuffer->write(outBuffer.data(), FRAME_SIZE)`
\* returns.
procWrite ==
    /\ Runs("processing")
    /\ UNCHANGED idleVars
    /\ stPc["processing"] = "write"
    /\ chanWriteReturns("beamformerToOutput", FRAME_SIZE)
    /\ chanWrite("beamformerToOutput", FRAME_SIZE)
    /\ stPc' = [stPc EXCEPT !["processing"] = "loop"]
    /\ UNCHANGED <<stRunning, stState, chClosed, appFields, mainVars, stopVars>>
    /\ UNCHANGED <<cbVars, ctorVars, ehVars, wdVars>>

\* `for (int i = 0; i < 2; i++)`: the periods of silence outputLoop writes
\* before its loop.
PrerollOnce == 2 - 1

PREROLL_PERIODS == 2

\* The frames outputLoop passes to snd_pcm_writei.
writeFramesAsRead(r) == r

writeFrames(r) == FRAME_SIZE

\* One snd_pcm_writei call of outputLoop: the frames passed, how many of the
\* samples came out of the channel and how many are zeros put in by
\* outputLoop, and the call it is ("preroll", "period" or "retry").
hwWrite(kind, r) ==
    [kind |-> kind, frames |-> writeFrames(r), data |-> r,
     zeros |-> writeFrames(r) - r]

\* outputLoop: one of the writes of silence before the loop; the results are
\* not looked at.
outPreroll ==
    /\ Runs("output")
    /\ stPc["output"] = "preroll"
    /\ outWrites' = Append(outWrites, hwWrite("preroll", 0))
    /\ stPc' = [stPc EXCEPT !["output"] =
                  IF Len(outWrites') >= PREROLL_PERIODS THEN "loop"
                  ELSE "preroll"]
    /\ UNCHANGED <<envVars, outRead, resumeTries, capRecov, mainRet>>
    /\ UNCHANGED <<bfVars, dspVars, delayVars>>
    /\ UNCHANGED <<stRunning, stState, chanVars, appFields, mainVars, stopVars>>
    /\ UNCHANGED <<cbVars, ctorVars, ehVars, wdVars>>

\* outputLoop: snd_pcm_writei of the period and, after an error other than
\* -ESTRPIPE, snd_pcm_recover.  "ok": the write succeeded; "recovered": it
\* failed and snd_pcm_recover succeeded, the write is to be retried;
\* "failed": snd_pcm_recover failed, `state = STATE_ERROR; continue;`
\* "suspended": -ESTRPIPE, snd_pcm_resume is to be called.
OutputOutcomes == {"ok", "recovered", "failed", "suspended"}

outIo(outcome) ==
    /\ Runs("output")
    /\ stPc["output"] = "io"
    /\ outWrites' = Append(outWrites, hwWrite("period", outRead))
    /\ stPc' = [stPc EXCEPT !["output"] =
                  CASE outcome = "recovered" -> "retry"
                    [] outcome = "suspended" -> "resume"
                    [] OTHER -> "loop"]
    /\ IF outcome \in {"failed", "suspended"}
       THEN /\ faults < MaxFaults
            /\ faults' = faults + 1
       ELSE UNCHANGED faults
    /\ stState' = IF outcome = "failed"
                  THEN [stState EXCEPT !["output"] = "STATE_ERROR"]
                  ELSE stState
    /\ UNCHANGED resumeTries
    /\ UNCHANGED <<periods, outRead, capRecov, mainRet>>
    /\ UNCHANGED <<bfVars, dspVars, delayVars>>
    /\ UNCHANGED <<stRunning, chanVars, appFields, mainVars, stopVars>>
    /\ UNCHANGED <<cbVars, ctorVars, ehVars, wdVars>>

\* outputLoop after -ESTRPIPE: one call of snd_pcm_resume and what follows
\* it.
outResume(res) ==
    /\ Runs("output")
    /\ stPc["output"] = "resume"
    /\ resumeTries' = [resumeTries EXCEPT !["output"] =
                          IF res = "EAGAIN" THEN @ + 1 ELSE 0]
    /\ CASE res = "EAGAIN" ->
              /\ resumeTries["output"] < MaxResumes
              /\ UNCHANGED <<stPc, stState>>
         [] res \in {"resumed", "prepared"} ->
              /\ stPc' = [stPc EXCEPT !["output"] = "retry"]
              /\ UNCHANGED stState
         [] res = "failed" ->
              /\ stPc' = [stPc EXCEPT !["output"] = "loop"]
              /\ stState' = [stState EXCEPT !["output"] = "STATE_ERROR"]
    /\ UNCHANGED <<envVars, outRead, outWrites, capRecov, mainRet>>
    /\ UNCHANGED <<bfVars, dspVars, delayVars>>
    /\ UNCHANGED <<stRunning, chanVars, appFields, mainVars, stopVars>>
    /\ UNCHANGED <<cbVars, ctorVars, ehVars, wdVars>>

\* What outputLoop does with its state when the write after a recovery has
\* succeeded.
afterRetryError(state) == "STATE_ERROR"

afterRetry(state) == state

\* outputLoop: the write after a recovery, `frames = snd_pcm_writei(handle,
\* buffer.data(), periodSize);`, of the same buffer.
outRetry(ok) ==
    /\ Runs("output")
    /\ stPc["output"] = "retry"
    /\ outWrites' = Append(outWrites, hwWrite("retry", outRead))
    /\ stPc' = [stPc EXCEPT !["output"] = "loop"]
    /\ IF ok
       THEN /\ stState' = [stState EXCEPT !["output"] = afterRetry(@)]
            /\ UNCHANGED faults
       ELSE /\ stState' = [stState EXCEPT !["output"] = "STATE_ERROR"]
            /\ UNCHANGED faults
    /\ UNCHANGED <<periods, outRead, resumeTries, capRecov, mainRet>>
    /\ UNCHANGED <<bfVars, dspVars, delayVars>>
    /\ UNCHANGED <<stRunning, chanVars, appFields, mainVars, stopVars>>
    /\ UNCHANGED <<cbVars, ctorVars, ehVars, wdVars>>

\* ---- BeamFormerApp::init and BeamFormerApp::start -------------------------
\* The order in which init() initialises the stages.
initSteps == <<"capture", "processing", "output">>

\* The order in which start() starts the threads.
startStepsWatchdogFirst == <<"watchdog", "output", "processing", "capture">>

startSteps == <<"output", "processing", "capture", "watchdog">>

\* init() has installed sigHandler for SIGINT and SIGTERM.
handlersInstalled == Len(initOrder) = Len(initSteps)

\* The place of resource r in the order of DspResources::init.
dspRank(r) == CHOOSE i \in 1 .. Len(DspOrder) : DspOrder[i] = r

\* DspResources::init when the acquisition of `failed` fails ("none": when
\* all succeed): the resources it has acquired when it returns.  Both
\* buffers of a channel are asked for before either is tested.
dspInitAcquires(failed) ==
    IF failed = "none"
    THEN DspResources
    ELSE {r \in DspResources : dspRank(r) < dspRank(failed)}
         \cup (IF failed = "fftIn0" THEN {"fftOut0"} ELSE {})
         \cup (IF failed = "fftIn1" THEN {"fftOut1"} ELSE {})

dspInit(acquired, failed) ==
    [r \in DspResources |->
        acquired[r] + (IF r \in dspInitAcquires(failed) THEN 1 ELSE 0)]

\* ~DspResources: `if (p) free(p)` for each resource.
dspFreesUntested(n) == 1

dspFrees(n) == IF n > 0 THEN 1 ELSE 0

dspDestroy(acquired, released) ==
    [r \in DspResources |-> released[r] + dspFrees(acquired[r])]

\* A stage's init(): `state = STATE_RUNNING;` is its last statement before
\* `return true`, every `return false` comes before it.
stageInitStateAlways(ok, state) == "STATE_RUNNING"

stageInitState(ok, state) == IF ok THEN "STATE_RUNNING" ELSE state

\* The next stage's init() returns.  After the last one init() installs the
\* signal handlers and returns true; after a false one init() returns false,
\* main returns 1 and ~BeamFormerApp calls stop().
appInitStage(ok) ==
    /\ Runs("main")
    /\ mainPc = "init"
    /\ UNCHANGED <<envVars, hwVars, bfVars, dspReleased, delayVars>>
    /\ IF initSteps[mainAt] = "processing"
       THEN \E failed \in (IF ok THEN {"none"} ELSE DspResources) :
               dspAcquired' = dspInit(dspAcquired, failed)
       ELSE UNCHANGED dspAcquired
    /\ stState' = [stState EXCEPT ![initSteps[mainAt]] = stageInitState(ok, @)]
    /\ IF ok
       THEN /\ initOrder' = Append(initOrder, initSteps[mainAt])
            /\ mainPc' = IF mainAt = Len(initSteps) THEN "start" ELSE "init"
            /\ mainAt' = IF mainAt = Len(initSteps) THEN 1 ELSE mainAt + 1
            /\ UNCHANGED <<stopPc, mainRet>>
       ELSE /\ mainPc' = "dtor"
            /\ mainRet' = 1
            /\ stopPc' = [stopPc EXCEPT !["main"] = "test"]
            /\ UNCHANGED <<initOrder, mainAt>>
    /\ UNCHANGED <<startOrder, stopAt, stopOrder, hHost, stRunning, stPc>>
    /\ UNCHANGED <<appFields, chanVars, cbVars, ctorVars, ehVars, wdVars>>

\* A stage's start(): `running = true;` and the thread is created.
stageStart(s) ==
    IF stRunning[s]
    THEN UNCHANGED <<stRunning, stPc>>
    ELSE /\ stRunning' = [stRunning EXCEPT ![s] = TRUE]
         /\ stPc' = [stPc EXCEPT ![s] = IF s = "output" THEN "preroll"
                                        ELSE "loop"]

\* The next call of start(): a stage's start() or startWatchdog().
appStartStep ==
    /\ Runs("main")
    /\ UNCHANGED idleVars
    /\ mainPc = "start"
    /\ IF startSteps[mainAt] = "watchdog"
       THEN startWatchdog /\ UNCHANGED <<stRunning, stPc>>
       ELSE stageStart(startSteps[mainAt]) /\ UNCHANGED wdFields
    /\ startOrder' = Append(startOrder, startSteps[mainAt])
    /\ mainPc' = IF mainAt = Len(startSteps) THEN "setRunning" ELSE "start"
    /\ mainAt' = IF mainAt = Len(startSteps) THEN 1 ELSE mainAt + 1
    /\ UNCHANGED <<initOrder, stState, swPc, appFields, stopVars, chanVars>>
    /\ UNCHANGED <<cbVars, ctorVars, ehVars>>

\* start(): `running = true; ... return true;`
appSetRunning ==
    /\ Runs("main")
    /\ UNCHANGED idleVars
    /\ mainPc = "setRunning"
    /\ appRunning' = TRUE
    /\ mainPc' = "wait"
    /\ UNCHANGED <<sig_received, stopping, mainAt, initOrder, startOrder>>
    /\ UNCHANGED <<stopVars, stageVars, chanVars>>
    /\ UNCHANGED <<cbVars, ctorVars, ehVars, wdVars>>

\* waitForExit(): `while (running && !sig_received)` and one turn of the
\* loop, the 100 ms sleep and `errorHandler->pingWatchdog();`.  When the
\* loop ends main returns 0 and ~BeamFormerApp calls stop().
appWait ==
    /\ Runs("main")
    /\ UNCHANGED <<envVars, hwVars, bfVars, dspVars, delayVars>>
    /\ mainPc = "wait"
    /\ IF appRunning /\ ~sig_received
       THEN pingWatchdog /\ UNCHANGED <<mainPc, stopPc, mainRet>>
       ELSE /\ mainPc' = "dtor"
            /\ mainRet' = 0
            /\ stopPc' = [stopPc EXCEPT !["main"] = "test"]
            /\ UNCHANGED wdFields
    /\ UNCHANGED <<mainAt, initOrder, startOrder, stopAt, stopOrder, hHost>>
    /\ UNCHANGED <<appFields, stageVars, chanVars, swPc>>
    /\ UNCHANGED <<cbVars, ctorVars, ehVars>>

\* ~BeamFormerApp: stop() has returned, the members are destroyed
\* (~BeamFormer destroys its DspResources) and the process ends.
appExit ==
    /\ Runs("main")
    /\ dspReleased' = dspDestroy(dspAcquired, dspReleased)
    /\ UNCHANGED <<envVars, hwVars, mainRet, bfVars, dspAcquired, delayVars>>
    /\ mainPc = "dtor"
    /\ stopPc["main"] = "done"
    /\ mainPc' = "exited"
    /\ UNCHANGED <<mainAt, initOrder, startOrder>>
    /\ UNCHANGED <<appFields, stopVars, stageVars, chanVars>>
    /\ UNCHANGED <<cbVars, ctorVars, ehVars, wdVars>>

\* ---- the signal handler --------------------------------------------------
\* The threads a signal sent to the process can be delivered to: none of
\* them blocks SIGINT or SIGTERM.
LiveThreads ==
    {"main"}
    \cup {s \in Stages : stPc[s] \notin {"none", "exited", "joined"}}
    \cup (IF wdPc \in {"none", "exited"} THEN {} ELSE {"watchdog"})

\* The thread a signal sent to the process is delivered to while the main
\* thread takes signals.
MainHost == {"main"}

\* The threads a signal can be delivered to when any thread that does not
\* block it may get it.
SigHosts == {"main", "capture"}

\* sigHandler runs on thread h: `sig_received = true;`, the
\* compare_exchange on `stopping`, and on success the call of stop().
sigHandler(h) ==
    /\ ~aborted
    /\ UNCHANGED idleVars
    /\ mainPc # "exited"
    /\ handlersInstalled
    /\ h \in LiveThreads
    /\ hHost = "none"
    /\ sig_received' = TRUE
    /\ stopping' = TRUE
    /\ IF ~stopping
       THEN /\ hHost' = h
            /\ stopPc' = [stopPc EXCEPT !["handler"] = "test"]
       ELSE UNCHANGED <<hHost, stopPc>>
    /\ UNCHANGED <<appRunning, mainVars, stopAt, stopOrder, stageVars, chanVars>>
    /\ UNCHANGED <<cbVars, ctorVars, ehVars, wdVars>>

\* ---- BeamFormerApp::stop -------------------------------------------------
\* The thread that runs the call c of stop().
ctxThread(c) == IF c = "main" THEN "main" ELSE hHost

\* The call c of stop() can take a step.
CtxRuns(c) ==
    /\ ~aborted
    /\ UNCHANGED idleVars
    /\ mainPc # "exited"
    /\ c = "main" => hHost # "main"

\* The shutdown body of stop(), in order.
stopStepsWatchdogFirst ==
    << [op |-> "stopWatchdog", x |-> "watchdog"],
       [op |-> "close", x |-> "captureToBeamformer"],
       [op |-> "close", x |-> "beamformerToOutput"],
       [op |-> "setState", x |-> "capture"],
       [op |-> "stop", x |-> "capture"],
       [op |-> "setState", x |-> "processing"],
       [op |-> "stop", x |-> "processing"],
       [op |-> "setState", x |-> "output"],
       [op |-> "stop", x |-> "output"] >>

stopSteps ==
    << [op |-> "close", x |-> "captureToBeamformer"],
       [op |-> "close", x |-> "beamformerToOutput"],
       [op |-> "stopWatchdog", x |-> "watchdog"],
       [op |-> "setState", x |-> "capture"],
       [op |-> "stop", x |-> "capture"],
       [op |-> "setState", x |-> "processing"],
       [op |-> "stop", x |-> "processing"],
       [op |-> "setState", x |-> "output"],
       [op |-> "stop", x |-> "output"] >>

\* The call c returns from stop(); the handler returns to the thread it
\* interrupted.
stopReturn(c) ==
    /\ stopPc' = [stopPc EXCEPT ![c] = "done"]
    /\ hHost' = IF c = "handler" THEN "none" ELSE hHost
    /\ UNCHANGED stopAt

\* The call c goes on to the next step of the body, or returns after the
\* last.
stopAdvance(c) ==
    IF stopAt[c] = Len(stopSteps)
    THEN stopReturn(c)
    ELSE /\ stopAt' = [stopAt EXCEPT ![c] = @ + 1]
         /\ stopPc' = [stopPc EXCEPT ![c] = "body"]
         /\ UNCHANGED hHost

\* stop(): `if (!running) return;`
stopTest(c) ==
    /\ CtxRuns(c)
    /\ UNCHANGED idleVars
    /\ stopPc[c] = "test"
    /\ IF appRunning
       THEN stopPc' = [stopPc EXCEPT ![c] = "store"] /\ UNCHANGED <<hHost, stopAt>>
       ELSE stopReturn(c)
    /\ UNCHANGED <<stopOrder, appFields, mainVars, stageVars, chanVars>>
    /\ UNCHANGED <<cbVars, ctorVars, ehVars, wdVars>>

\* stop(): `running = false;` and the shutdown body begins.
stopStore(c) ==
    /\ CtxRuns(c)
    /\ UNCHANGED idleVars
    /\ stopPc[c] = "store"
    /\ appRunning' = FALSE
    /\ stopPc' = [stopPc EXCEPT ![c] = "body"]
    /\ stopAt' = [stopAt EXCEPT ![c] = 1]
    /\ UNCHANGED <<stopOrder, hHost, sig_received, stopping, mainVars>>
    /\ UNCHANGED <<stageVars, chanVars, cbVars, ctorVars, ehVars, wdVars>>

\* The next step of the body: close() of a channel, setState of a stage, or
\* the `if (!running) return;` of stopWatchdog() or of a stage's stop().
stopBody(c) ==
    /\ CtxRuns(c)
    /\ UNCHANGED idleVars
    /\ stopPc[c] = "body"
    /\ LET st == stopSteps[stopAt[c]] IN
        /\ stopOrder' = [stopOrder EXCEPT ![c] = Append(@, st)]
        /\ CASE st.op = "close" ->
                  /\ chClosed' = [chClosed EXCEPT ![st.x] = TRUE]
                  /\ stopAdvance(c)
                  /\ UNCHANGED stState
             [] st.op = "setState" ->
                  /\ stState' = [stState EXCEPT ![st.x] = "STATE_TERMINATING"]
                  /\ stopAdvance(c)
                  /\ UNCHANGED chClosed
             [] st.op = "stopWatchdog" ->
                  /\ IF stopWatchdogJoins
                     THEN /\ stopPc' = [stopPc EXCEPT ![c] = "clear"]
                          /\ UNCHANGED <<stopAt, hHost>>
                     ELSE stopAdvance(c)
                  /\ UNCHANGED <<chClosed, stState>>
             [] st.op = "stop" ->
                  /\ IF stRunning[st.x]
                     THEN /\ stopPc' = [stopPc EXCEPT ![c] = "clear"]
                          /\ UNCHANGED <<stopAt, hHost>>
                     ELSE stopAdvance(c)
                  /\ UNCHANGED <<chClosed, stState>>
    /\ UNCHANGED <<stRunning, stPc, chFill, appFields, mainVars>>
    /\ UNCHANGED <<cbVars, ctorVars, ehVars, wdVars>>

\* `running = false;` of a stage's stop(), `watchdogRunning = false;` of
\* stopWatchdog().
stopClear(c) ==
    /\ CtxRuns(c)
    /\ UNCHANGED idleVars
    /\ stopPc[c] = "clear"
    /\ IF stopSteps[stopAt[c]].op = "stopWatchdog"
       THEN stopWatchdogBegin /\ UNCHANGED stRunning
       ELSE /\ stRunning' = [stRunning EXCEPT ![stopSteps[stopAt[c]].x] = FALSE]
            /\ UNCHANGED wdFields
    /\ stopPc' = [stopPc EXCEPT ![c] = "join"]
    /\ UNCHANGED <<stopAt, stopOrder, hHost, stState, stPc, chanVars>>
    /\ UNCHANGED <<appFields, mainVars, swPc, cbVars, ctorVars, ehVars>>

\* Where thread x is.
threadPc(x) == IF x = "watchdog" THEN wdPc ELSE stPc[x]

\* Thread x has been joined.
threadJoined(x) == threadPc(x) = (IF x = "watchdog" THEN "none" ELSE "joined")

\* join() of a thread that another call of stop() has joined or is joining:
\* the behaviour is undefined.  The call returns, or join() throws
\* std::system_error, or it never returns.
DoubleJoinOutcomes == {"return", "throw", "hang"}

\* `if (thread.joinable()) thread.join();` and the return to stop().  A
\* thread that joins itself gets std::system_error.
stopJoin(c, outcome) ==
    /\ CtxRuns(c)
    /\ UNCHANGED idleVars
    /\ stopPc[c] = "join"
    /\ LET x == stopSteps[stopAt[c]].x IN
        CASE ctxThread(c) = x ->
               /\ outcome = "throw"
               /\ stopPc' = [stopPc EXCEPT ![c] = "threw"]
               /\ UNCHANGED <<stopAt, hHost, wdPc, stPc>>
          [] ctxThread(c) # x /\ threadJoined(x) ->
               /\ CASE outcome = "return" -> stopAdvance(c)
                    [] outcome = "throw" ->
                         /\ stopPc' = [stopPc EXCEPT ![c] = "threw"]
                         /\ UNCHANGED <<stopAt, hHost>>
                    [] outcome = "hang" ->
                         /\ stopPc' = [stopPc EXCEPT ![c] = "hung"]
                         /\ UNCHANGED <<stopAt, hHost>>
               /\ UNCHANGED <<wdPc, stPc>>
          [] ctxThread(c) # x /\ ~threadJoined(x) ->
               /\ outcome = "return"
               /\ threadPc(x) = "exited"
               /\ IF x = "watchdog"
                  THEN wdPc' = "none" /\ UNCHANGED stPc
                  ELSE stPc' = [stPc EXCEPT ![x] = "joined"] /\ UNCHANGED wdPc
               /\ stopAdvance(c)
    /\ UNCHANGED <<stopOrder, stRunning, stState, chanVars, appFields, mainVars>>
    /\ UNCHANGED <<watchdogRunning, watchdogPing, swPc, pinged>>
    /\ UNCHANGED <<cbVars, ctorVars, ehVars>>

(***************************************************************************)
(* The channel between one writer thread and one reader thread             *)
(***************************************************************************)
ctorInit ==
    /\ ctorPc = "constructed"
    /\ ctorSize = BUFFER_SIZE

InitObjects ==
    /\ LET f == ctorFields(BUFFER_SIZE) IN
        /\ buffer = f.buffer
        /\ readPos = f.readPos
        /\ writePos = f.writePos
        /\ bufferSize = f.bufferSize
        /\ bufferMask = f.bufferMask
        /\ closed = f.closed
    /\ signalled = {}
    /\ wpc = "idle" /\ wdata = <<>> /\ wsize = 0 /\ written = 0 /\ wret = 0
    /\ wAfterClose = FALSE
    /\ rpc = "idle" /\ rdata = <<>> /\ rsize = 0 /\ rread = 0 /\ rret = 0
    /\ rAfterClose = FALSE /\ rAvailAtCall = -1 /\ rSawEmpty = FALSE
    /\ issued = 0 /\ accepted = <<>> /\ delivered = <<>> /\ closeCount = 0
    /\ ctorInit
    /\ ehInit
    /\ appInit

Init == InitObjects /\ delaysDone

Next ==
    \/ \E n \in WriteSizes : writeCall(n)
    \/ writeBegin
    \/ writeWake
    \/ \E n \in ReadSizes : readCall(n)
    \/ readWake
    \/ close

Spec == Init /\ [][Next]_vars

\* The scheduler lets every thread run: a thread that waits for the mutex
\* gets it, and a wait_for returns once its 100 ms tick is over.
FairSpec ==
    /\ Init
    /\ [][Next]_vars
    /\ WF_vars(writeBegin)
    /\ WF_vars(writeWake)
    /\ WF_vars(readWake)

(***************************************************************************)
(* The constructor applied to every size                                   *)
(***************************************************************************)
InitCtor ==
    /\ ctorPc = "new"
    /\ ctorSize \in 0 .. SIZE_MAX
    /\ buffer = <<>>
    /\ readPos = 0 /\ writePos = 0 /\ bufferSize = 0 /\ bufferMask = 0
    /\ closed = FALSE
    /\ signalled = {}
    /\ wpc = "idle" /\ wdata = <<>> /\ wsize = 0 /\ written = 0 /\ wret = 0
    /\ wAfterClose = FALSE
    /\ rpc = "idle" /\ rdata = <<>> /\ rsize = 0 /\ rread = 0 /\ rret = 0
    /\ rAfterClose = FALSE /\ rAvailAtCall = -1 /\ rSawEmpty = FALSE
    /\ issued = 0 /\ accepted = <<>> /\ delivered = <<>> /\ closeCount = 0
    /\ ehInit
    /\ appInit
    /\ delaysDone

\* `throw std::invalid_argument(...)`: no object comes to exist.
ctorThrow ==
    /\ ctorPc = "new"
    /\ ctorRejects(ctorSize)
    /\ ctorPc' = "threw"
    /\ UNCHANGED <<cbVars, ctorSize, ehVars, wdVars, appVars>>

\* The constructor runs to its end.
ctorReturn ==
    /\ ctorPc = "new"
    /\ ~ctorRejects(ctorSize)
    /\ ctorPc' = "constructed"
    /\ LET f == ctorFields(ctorSize) IN
        /\ buffer' = f.buffer
        /\ readPos' = f.readPos
        /\ writePos' = f.writePos
        /\ bufferSize' = f.bufferSize
        /\ bufferMask' = f.bufferMask
        /\ closed' = f.closed
    /\ UNCHANGED <<signalled, wVars, rVars, histVars, ctorSize, ehVars, wdVars,
                   appVars>>

NextCtor == ctorThrow \/ ctorReturn

SpecCtor == InitCtor /\ [][NextCtor]_vars

(***************************************************************************)
(* A BeamFormer object and its client: init() once, then start() and       *)
(* stop() in turn, while a producer fills its input channel and a consumer *)
(* empties its output channel                                              *)
(***************************************************************************)
\* BeamFormer::init succeeds.
bfInit ==
    /\ bfOwner = "out"
    /\ stPc["processing"] = "none"
    /\ stState["processing"] = "STATE_INIT"
    /\ dspAcquired' = dspInit(dspAcquired, "none")
    /\ stState' = [stState EXCEPT !["processing"] = stageInitState(TRUE, @)]
    /\ UNCHANGED <<stRunning, stPc, chanVars, bfVars, dspReleased, delayVars>>
    /\ UNCHANGED <<envVars, hwVars, mainRet, appFields, mainVars, stopVars>>
    /\ UNCHANGED <<cbVars, ctorVars, ehVars, wdVars>>

\* BeamFormer::start: the processing thread begins with the first period
\* since this start.
bfStart ==
    /\ bfOwner = "out"
    /\ stState["processing"] # "STATE_INIT"
    /\ stageStart("processing")
    /\ bfIndex' = IF stRunning["processing"] THEN bfIndex ELSE 0
    /\ UNCHANGED <<frameCount, currentSteeringAngle, bfOwner>>
    /\ UNCHANGED <<stState, chanVars, dspVars, delayVars>>
    /\ UNCHANGED <<envVars, hwVars, mainRet, appFields, mainVars, stopVars>>
    /\ UNCHANGED <<cbVars, ctorVars, ehVars, wdVars>>

\* BeamFormer::stop: `if (!running) return; running = false;` and the call
\* of join().
bfStop ==
    /\ bfOwner = "out"
    /\ stRunning["processing"]
    /\ stRunning' = [stRunning EXCEPT !["processing"] = FALSE]
    /\ bfOwner' = "join"
    /\ UNCHANGED <<frameCount, bfIndex, currentSteeringAngle>>
    /\ UNCHANGED <<stState, stPc, chanVars, dspVars, delayVars>>
    /\ UNCHANGED <<envVars, hwVars, mainRet, appFields, mainVars, stopVars>>
    /\ UNCHANGED <<cbVars, ctorVars, ehVars, wdVars>>

\* BeamFormer::stop: `processingThread.join()` returns.
bfJoin ==
    /\ bfOwner = "join"
    /\ stPc["processing"] = "exited"
    /\ stPc' = [stPc EXCEPT !["processing"] = "joined"]
    /\ bfOwner' = "out"
    /\ UNCHANGED <<frameCount, bfIndex, currentSteeringAngle>>
    /\ UNCHANGED <<stRunning, stState, chanVars, dspVars, delayVars>>
    /\ UNCHANGED <<envVars, hwVars, mainRet, appFields, mainVars, stopVars>>
    /\ UNCHANGED <<cbVars, ctorVars, ehVars, wdVars>>

\* The producer writes a period to the input channel.
bfFeed ==
    /\ chanRoom("captureToBeamformer") >= periodSamples("captureToBeamformer")
    /\ chanWrite("captureToBeamformer", periodSamples("captureToBeamformer"))
    /\ UNCHANGED <<chClosed, stageVars, bfVars, dspVars, delayVars>>
    /\ UNCHANGED <<envVars, hwVars, mainRet, appFields, mainVars, stopVars>>
    /\ UNCHANGED <<cbVars, ctorVars, ehVars, wdVars>>

\* The consumer reads a period from the output channel.
bfDrain ==
    /\ chFill["beamformerToOutput"] >= periodSamples("beamformerToOutput")
    /\ chanRead("beamformerToOutput", periodSamples("beamformerToOutput"))
    /\ UNCHANGED <<chClosed, stageVars, bfVars, dspVars, delayVars>>
    /\ UNCHANGED <<envVars, hwVars, mainRet, appFields, mainVars, stopVars>>
    /\ UNCHANGED <<cbVars, ctorVars, ehVars, wdVars>>

NextBF ==
    \/ bfInit
    \/ bfStart
    \/ bfStop
    \/ bfJoin
    \/ bfFeed
    \/ bfDrain
    \/ stLoop("processing")
    \/ stRead("processing", "captureToBeamformer")
    \/ procWork("ok")
    \/ procWrite

SpecBF == Init /\ [][NextBF]_vars

(***************************************************************************)
(* The constructor of BeamFormer fills the delay table                     *)
(***************************************************************************)
InitDelays == InitObjects /\ dAngle = 0 /\ dDelay = 0

NextDelays == calcDelay

SpecDelays == InitDelays /\ [][NextDelays]_vars

(***************************************************************************)
(* The error registry and the threads that report to it                    *)
(***************************************************************************)
NextEH ==
    \E t \in Reporters :
        \/ \E err \in ReportKinds(t) : reCall(t, err)
        \/ reLock(t)
        \/ reSetLast(t)
        \/ reSetError(t)
        \/ \E outcome \in RelockOutcomes : reRecover(t, outcome)
        \/ recSetRecovery(t)
        \/ recSwitch(t)
        \/ recReturn(t)
        \/ reReturn(t)

SpecEH == Init /\ [][NextEH]_vars

(***************************************************************************)
(* The watchdog, its owner, and the threads that ping and report           *)
(***************************************************************************)
NextWD ==
    \/ wdStart
    \/ wdStop
    \/ wdJoin
    \/ wdPing
    \/ wdSleep
    \/ wdStopTest
    \/ wdCheck
    \/ wdReset
    \/ \E err \in ReportKinds("processing") : reCall("processing", err)
    \/ \E t \in {"processing", "watchdog"} :
          \/ reLock(t)
          \/ reSetLast(t)
          \/ reSetError(t)
          \/ \E outcome \in RelockOutcomes : reRecover(t, outcome)
          \/ recSetRecovery(t)
          \/ recSwitch(t)
          \/ recReturn(t)
          \/ reReturn(t)

SpecWD == Init /\ [][NextWD]_vars

(***************************************************************************)
(* The program                                                             *)
(***************************************************************************)
\* The outcomes of a transfer or of a processing step in which the hardware
\* or the processing reports an error.
Faulty == {"failed", "throw", "suspended", "recovered"}

\* The steps of the main thread up to the end of waitForExit.
NextMain ==
    \/ \E ok \in BOOLEAN : appInitStage(ok)
    \/ appStartStep
    \/ appSetRunning
    \/ appWait

\* The steps of the stage threads when every transfer and every processing
\* step succeeds.
NextStagesOk ==
    \/ \E s \in Stages : stLoop(s)
    \/ \E outcome \in CaptureOutcomes \ Faulty : capIo(outcome)
    \/ capWrite
    \/ stRead("processing", "captureToBeamformer")
    \/ \E outcome \in ProcessingOutcomes \ Faulty : procWork(outcome)
    \/ procWrite
    \/ outPreroll
    \/ stRead("output", "beamformerToOutput")
    \/ \E outcome \in OutputOutcomes \ Faulty : outIo(outcome)

\* The steps of the output thread around an error of snd_pcm_writei.
NextOutputFault ==
    \/ \E outcome \in OutputOutcomes \cap Faulty : outIo(outcome)
    \/ \E ok \in BOOLEAN : outRetry(ok)
    \/ \E res \in ResumeResults : outResume(res)

\* The steps of the capture thread around an error of snd_pcm_readi.
NextCaptureFault ==
    \/ \E outcome \in CaptureOutcomes \cap Faulty : capIo(outcome)
    \/ \E res \in ResumeResults : capResume(res)
    \/ stReported("capture")

\* The steps of the stage threads around a failure.
NextStagesFault ==
    \/ NextCaptureFault
    \/ \E outcome \in ProcessingOutcomes \cap Faulty : procWork(outcome)
    \/ stReported("processing")
    \/ NextOutputFault

\* The steps of the watchdog thread and of the threads inside reportError.
NextRegistry ==
    \/ wdSleep
    \/ wdStopTest
    \/ wdCheck
    \/ wdReset
    \/ \E t \in Reporters :
          \/ reLock(t)
          \/ reSetLast(t)
          \/ reSetError(t)
          \/ \E outcome \in RelockOutcomes : reRecover(t, outcome)
          \/ recSetRecovery(t)
          \/ recSwitch(t)
          \/ recReturn(t)
          \/ reReturn(t)

\* The signal handler on one of the threads `hosts`, the calls of stop()
\* and the end of the process.
NextShutdown(hosts) ==
    \/ \E h \in hosts : sigHandler(h)
    \/ \E c \in Ctx :
          \/ stopTest(c)
          \/ stopStore(c)
          \/ stopBody(c)
          \/ stopClear(c)
          \/ \E outcome \in DoubleJoinOutcomes : stopJoin(c, outcome)
    \/ appExit

\* Start-up, work and shutdown of the program when the hardware and the
\* processing do not fail and signals are handled on the main thread.
NextApp == NextMain \/ NextStagesOk \/ NextRegistry \/ NextShutdown(MainHost)

SpecApp == Init /\ [][NextApp]_vars

\* The steps of the stage threads while the capture hardware delivers
\* silence: nothing is forwarded, processing and output wait in read().
NextStagesSilent ==
    \/ \E s \in Stages : stLoop(s)
    \/ \E outcome \in {"silent", "nodata"} : capIo(outcome)
    \/ stRead("processing", "captureToBeamformer")
    \/ outPreroll
    \/ stRead("output", "beamformerToOutput")

\* Start-up and shutdown with silence at the input and signals handled on
\* any thread that does not block them.
NextSig ==
    NextMain \/ NextStagesSilent \/ NextRegistry \/ NextShutdown(SigHosts)

SpecSig == Init /\ [][NextSig]_vars

\* Start-up of the program and the capture of periods, up to the processing
\* stage's read, when only the capture hardware fails and no signal arrives.
NextRecording ==
    \/ NextMain
    \/ \E s \in Stages : stLoop(s)
    \/ \E outcome \in CaptureOutcomes \ Faulty : capIo(outcome)
    \/ capWrite
    \/ stRead("processing", "captureToBeamformer")
    \/ outPreroll
    \/ NextCaptureFault
    \/ NextRegistry

SpecRecording == Init /\ [][NextRecording]_vars

\* Start-up and work of the program, failures included, while no signal
\* arrives.
NextStages == NextMain \/ NextStagesOk \/ NextStagesFault \/ NextRegistry

SpecStages == Init /\ [][NextStages]_vars

\* Start-up and work of the program when only the playback hardware fails,
\* while no signal arrives.
NextPlayback == NextMain \/ NextStagesOk \/ NextOutputFault \/ NextRegistry

SpecPlayback == Init /\ [][NextPlayback]_vars


(***************************************************************************)
(* Properties of the channel                                               *)
(***************************************************************************)
\* The unread samples, oldest first.
Ring ==
    [i \in 1 .. availableRead(readPos, writePos) |->
        buffer[BitAnd(Add(readPos, i - 1), bufferMask)]]

\* Samples enqueued so far: those of the returned write() calls, and those
\* the write() in progress has stored.
Sent == accepted \o (IF wpc = "idle" THEN <<>> ELSE SubSeq(wdata, 1, written))

\* Samples taken out so far: those of the returned read() calls, and those
\* the read() in progress has copied.
Received == delivered \o (IF rpc = "idle" THEN <<>> ELSE rdata)

IsPrefix(a, b) == Len(a) <= Len(b) /\ a = SubSeq(b, 1, Len(a))

IsPow2(n) == \E k \in 0 .. (SizeTBits - 1) : n = 2 ^ k

\* A write() call larger than the channel can hold at once.
BigWrite == wsize > BUFFER_SIZE - 1

FifoInv ==
    /\ Received \o Ring = Sent
    /\ IsPrefix(delivered, Sent)
    /\ \A i \in 1 .. Len(Sent) : Sent[i] = i
    /\ wpc = "idle" => wret <= wsize
    /\ rpc = "idle" => rret = Len(rdata)

\* C1: with one writer and one reader, under every interleaving of write,
\* read and close, what the reads return is a prefix of what the writes
\* accepted, in order, nothing lost, duplicated or altered (the samples taken
\* out followed by the unread ones are exactly the samples enqueued); and
\* while the channel is never closed and the reader keeps reading, a write
\* larger than the capacity returns its full count and the reader gets all of
\* it.
C1_FifoRoundTrip ==
    /\ []FifoInv
    /\ ([]~closed /\ []<>(rpc # "idle"))
          => /\ (wpc # "idle" /\ BigWrite) ~> (wpc = "idle" /\ wret = wsize)
             /\ (wpc = "idle" /\ wret = wsize /\ BigWrite) ~> (Received = accepted)

C1_Witness ==
    /\ ~closed
    /\ wpc = "idle" /\ BigWrite /\ wret = wsize
    /\ Len(delivered) >= wsize
    /\ delivered = accepted

CursorInv ==
    /\ readPos \in 0 .. (bufferSize - 1)
    /\ writePos \in 0 .. (bufferSize - 1)
    /\ Len(Sent) - Len(Received) = availableRead(readPos, writePos)
    /\ availableRead(readPos, writePos) = (writePos - readPos) % bufferSize
    /\ availableRead(readPos, writePos) <= bufferSize - 1
    /\ availableWrite(readPos, writePos)
          = bufferSize - 1 - availableRead(readPos, writePos)
    /\ Received \o Ring = Sent

\* A step of the writer thread.
WriterStep == (\E n \in WriteSizes : writeCall(n)) \/ writeBegin \/ writeWake

\* C2: the cursors stay in [0, N), the number of unread samples is
\* (writePos - readPos) mod N and at most N-1, the writable space is
\* N - 1 - readable, and a writer that finds N-1 unread samples in an open
\* channel stores nothing and waits; unread samples are never overwritten.
C2_ReservedSlot ==
    /\ []CursorInv
    /\ [][(/\ writeBegin \/ writeWake
           /\ ~closed
           /\ written < wsize
           /\ availableRead(readPos, writePos) = bufferSize - 1)
          => (wpc' = "wait" /\ UNCHANGED <<buffer, writePos, written>>)]_vars

C2_Witness ==
    /\ ~closed
    /\ wpc = "wait"
    /\ written < wsize
    /\ availableRead(readPos, writePos) = bufferSize - 1

\* C3: write returns less than it was asked for only if the channel has been
\* closed; on an open channel it returns only when every sample is enqueued.
C3_WriteShortOnlyIfClosed ==
    wpc = "idle" /\ wret < wsize => closed

C3_Witness ==
    wpc = "idle" /\ 0 < wret /\ wret < wsize /\ closed /\ ~wAfterClose

\* C4: read returns fewer samples than it was asked for only if the channel
\* is closed and the call has found the buffer empty; on an open channel it
\* returns only when `count` samples are delivered.
C4_ReadShortOnlyIfClosedAndDrained ==
    rpc = "idle" /\ rret < rsize => closed /\ rSawEmpty

C4_Witness ==
    rpc = "idle" /\ 0 < rret /\ rret < rsize /\ closed

\* C5: a read that begins after close() returned, on a channel holding k
\* unread samples, asking for at least k, returns exactly those k samples in
\* order and leaves the channel empty; no read that begins after close()
\* blocks, so every later read returns 0 at once.
C5_ReadAfterClose ==
    rAfterClose =>
        /\ rpc = "idle"
        /\ rsize >= rAvailAtCall =>
              /\ rret = rAvailAtCall
              /\ rdata = SubSeq(Sent, Len(Sent) - rAvailAtCall + 1, Len(Sent))
              /\ Ring = <<>>
              /\ delivered = Sent

C5_Witness ==
    /\ rAfterClose /\ rpc = "idle"
    /\ rAvailAtCall > 0 /\ rsize > rAvailAtCall /\ rret = rAvailAtCall

\* C6: a write of n > 0 samples that begins after close() returned never
\* waits, returns 0, and changes neither the buffer nor a cursor, also when
\* there is room.
C6_WriteAfterClose ==
    [][(WriterStep /\ wAfterClose')
          => /\ UNCHANGED <<buffer, readPos, writePos>>
             /\ wpc' # "wait"
             /\ wpc' = "idle" => wret' = 0]_vars

C6_Witness ==
    /\ wAfterClose /\ wpc = "idle" /\ wsize > 0 /\ wret = 0
    /\ availableWrite(readPos, writePos) >= wsize

\* C7: a reader blocked on an empty channel, or a writer blocked on a full
\* one, when close() is called, returns from its call.
C7_CloseUnblocks ==
    /\ (closeDone /\ rpc = "wait") ~> (rpc = "idle")
    /\ (closeDone /\ wpc = "wait") ~> (wpc = "idle")

C7_Witness == closeDone /\ wpc = "wait"

\* C8: the closed flag never goes back to false, and a close() call changes
\* neither the buffer nor a cursor; a second close() changes no field at all.
C8_CloseMonotonicIdempotent ==
    [][/\ closed => closed'
       /\ closeCount' # closeCount =>
             /\ closed'
             /\ UNCHANGED <<buffer, readPos, writePos, bufferSize, bufferMask>>
       /\ (closeCount' # closeCount /\ closeCount > 0) => UNCHANGED cbFields]_vars

C8_Witness == closeCount >= 2 /\ closed /\ Len(Ring) > 0

\* C9: a size that is not a power of two, 0 included, makes the constructor
\* throw; every constructed channel has a power of two N and mask N-1.
C9_CtorEnforcesPowerOfTwo ==
    /\ (ctorPc # "new" /\ ~IsPow2(ctorSize)) => ctorPc = "threw"
    /\ ctorPc = "constructed" => (IsPow2(bufferSize) /\ bufferMask = bufferSize - 1)

(***************************************************************************)
(* Properties of the error registry                                        *)
(***************************************************************************)
Recoverable == {"ERROR_ALSA_XRUN", "ERROR_ALSA_SUSPEND"}

\* Thread t's reportError call has gone past `lastError = err`.
PastSetLast(t) == ePc[t] \notin {"idle", "lock", "setLast"}

\* C10: a reportError call with ERROR_ALSA_XRUN or ERROR_ALSA_SUSPEND sets
\* lastError, then sets the global state to Error, then to Recovering, then
\* to Running, and returns: it never ends blocked or by an exception, the
\* states it has set are always the beginning of Error, Recovering, Running,
\* and it has set all three once it is past recoverFromError.
C10_HardwareFaultRecovers ==
    \A t \in Reporters :
        eErr[t] \in Recoverable =>
            /\ ePc[t] \notin {"deadlocked", "threw"}
            /\ IsPrefix(eSet[t],
                        <<"STATE_ERROR", "STATE_RECOVERY", "STATE_RUNNING">>)
            /\ (ePc[t] = "idle" /\ eSet[t] # <<>>) =>
                  eSet[t] = <<"STATE_ERROR", "STATE_RECOVERY", "STATE_RUNNING">>

Unrecoverable == {"ERROR_PROCESSING", "ERROR_SYSTEM"}

\* C11: a reportError call with ERROR_PROCESSING or ERROR_SYSTEM sets the
\* global state to Error, then to Recovering, then to Error again, and
\* returns: it never ends blocked or by an exception, it never sets Running,
\* and it has set all three states once it has returned.
C11_UnrecoverableFaultEndsInError ==
    \A t \in Reporters :
        eErr[t] \in Unrecoverable =>
            /\ ePc[t] \notin {"deadlocked", "threw"}
            /\ IsPrefix(eSet[t],
                        <<"STATE_ERROR", "STATE_RECOVERY", "STATE_ERROR">>)
            /\ (ePc[t] = "idle" /\ eSet[t] # <<>>) =>
                  eSet[t] = <<"STATE_ERROR", "STATE_RECOVERY", "STATE_ERROR">>

\* Thread t is inside reportError with the lock_guard of line 17 constructed
\* and the function still running.
InsideReport(t) == ePc[t] \notin {"idle", "lock", "deadlocked", "threw"}

\* The step stores to globalState or to lastError on behalf of thread t.
RegistryWrite(t) == Len(eSet'[t]) > Len(eSet[t]) \/ reSetLast(t)

\* C12: every store to globalState and to lastError is made by a thread that
\* owns errorMutex, and two reportError calls are never both between their
\* lock and their return.
C12_RegistryWritesUnderLock ==
    [][/\ \A t \in Reporters : RegistryWrite(t) => errorMutex = t
       /\ Cardinality({t \in Reporters : InsideReport(t)}) <= 1]_vars

(***************************************************************************)
(* Properties of the watchdog                                              *)
(***************************************************************************)
\* Thread t can never leave reportError: it waits for itself at the second
\* lock of errorMutex, or it waits at the first lock for a thread that does.
Stuck(t) ==
    \/ ePc[t] = "deadlocked"
    \/ /\ ePc[t] = "lock"
       /\ errorMutex \in Reporters
       /\ ePc[errorMutex] = "deadlocked"

\* The watchdog thread's reportError call has not returned.
WatchdogReporting == wdPc = "report" /\ ePc["watchdog"] # "idle"

\* C13: a window that ends with watchdogPing false makes the watchdog call
\* reportError(ERROR_SYSTEM) once, a window that ends with watchdogPing true
\* makes it report nothing, and in both cases the watchdog goes on to clear
\* watchdogPing and to begin the next window: its report always returns.
C13_MissedWindowReportsAndRearms ==
    [][/\ (wdCheck /\ ~watchdogPing) =>
              /\ ePc'["watchdog"] = "lock"
              /\ eErr'["watchdog"] = "ERROR_SYSTEM"
       /\ (wdCheck /\ watchdogPing) => UNCHANGED ehVars
       /\ wdReset => (wdPc' = "loop" /\ ~watchdogPing')
       /\ (WatchdogReporting => ~Stuck("watchdog") /\ ~aborted)']_vars

\* C14: watchdogPing is false when a window begins: after the startWatchdog
\* that creates the thread, for the first window, and after each
\* `watchdogPing = false` of the loop, for the later ones.
C14_PingClearAtWindowStart ==
    [][/\ (wdPc = "none" /\ wdPc' = "loop") => ~watchdogPing'
       /\ wdReset => ~watchdogPing']_vars

\* C15: stopWatchdog can always return (the thread it joins is never one that
\* cannot leave watchdogLoop); when it has returned no watchdog thread is
\* left; stopWatchdog on a stopped watchdog and startWatchdog on a running
\* one change nothing.
C15_WatchdogStopReturns ==
    [][/\ (swPc = "join" => ~Stuck("watchdog"))'
       /\ (swPc = "out" /\ ~watchdogRunning => wdPc = "none")'
       /\ (wdStop /\ ~watchdogRunning) => UNCHANGED wdVars
       /\ (wdStart /\ watchdogRunning) => UNCHANGED wdVars]_vars

(***************************************************************************)
(* Properties of start-up and shutdown                                     *)
(***************************************************************************)
\* C16: init() initialises capture, processing, output in that order;
\* start() starts the output thread, the processing thread, the capture
\* thread and then the watchdog, and no thread before every stage is
\* initialised.
C16_InitAndStartOrder ==
    /\ IsPrefix(initOrder, <<"capture", "processing", "output">>)
    /\ IsPrefix(startOrder, <<"output", "processing", "capture", "watchdog">>)
    /\ startOrder # <<>> => Len(initOrder) = 3
    /\ stPc["processing"] # "none" => stPc["output"] # "none"
    /\ stPc["capture"] # "none" => stPc["processing"] # "none"
    /\ (watchdogRunning \/ wdPc # "none") => \A s \in Stages : stPc[s] # "none"

C16_Witness ==
    /\ startOrder = <<"output", "processing", "capture", "watchdog">>
    /\ wdPc = "loop"
    /\ \A s \in Stages : stPc[s] \notin {"none", "exited", "joined"}

\* The step clears a stage's `running` or watchdogRunning.
ClearsRunning ==
    \/ watchdogRunning /\ ~watchdogRunning'
    \/ \E s \in Stages : stRunning[s] /\ ~stRunning'[s]

\* C17: every call of stop() that runs the shutdown body closes both
\* channels, then stops the watchdog, then for capture, processing and output
\* in that order sets the stage's state to Terminating and calls its stop();
\* `running` of a stage and watchdogRunning are cleared only when both
\* channels are closed, and a stage's only after its state was set to
\* Terminating.
C17_StopOrder ==
    [][/\ \A c \in Ctx :
            IsPrefix(stopOrder'[c],
                     << [op |-> "close", x |-> "captureToBeamformer"],
                        [op |-> "close", x |-> "beamformerToOutput"],
                        [op |-> "stopWatchdog", x |-> "watchdog"],
                        [op |-> "setState", x |-> "capture"],
                        [op |-> "stop", x |-> "capture"],
                        [op |-> "setState", x |-> "processing"],
                        [op |-> "stop", x |-> "processing"],
                        [op |-> "setState", x |-> "output"],
                        [op |-> "stop", x |-> "output"] >>)
       /\ ClearsRunning => \A ch \in Chans : chClosed[ch]
       /\ \A s \in Stages :
            (stRunning[s] /\ ~stRunning'[s]) =>
                \E c \in Ctx : \E i \in 1 .. Len(stopOrder[c]) :
                    stopOrder[c][i] = [op |-> "setState", x |-> s]
       /\ \A s \in Stages :
            (stPc[s] # "joined" /\ stPc'[s] = "joined") =>
                (wdPc = "none" /\ ~watchdogRunning)]_vars

C17_Witness ==
    /\ \E c \in Ctx : stopPc[c] = "done" /\ Len(stopOrder[c]) = 9
    /\ \A s \in Stages : stPc[s] = "joined"
    /\ wdPc = "none"

\* The thread joined by the call c of stop().
joinTarget(c) == stopSteps[stopAt[c]].x

\* C18: a call of stop() that has entered the shutdown body returns: it never
\* waits in join() for a thread that cannot leave reportError, and it never
\* ends by an exception or hangs.
C18_StopReturns ==
    \A c \in Ctx :
        /\ stopPc[c] \notin {"threw", "hung"}
        /\ (stopPc[c] = "join" /\ joinTarget(c) \in Reporters) =>
              ~Stuck(joinTarget(c))

\* The call c of stop() has gone past `running = false` into the body.
EnteredBody(c) ==
    stopPc[c] \in {"body", "clear", "join", "hung", "threw"} \/ stopOrder[c] # <<>>

\* C19: over a run at most one call of stop() runs the shutdown body.
C19_ShutdownBodyOnce == Cardinality({c \in Ctx : EnteredBody(c)}) <= 1

\* The step is a hardware transfer or a channel read or write of a stage.
StageTransfer ==
    \/ \E outcome \in CaptureOutcomes : capIo(outcome)
    \/ capWrite
    \/ stRead("processing", "captureToBeamformer")
    \/ procWrite
    \/ outPreroll
    \/ stRead("output", "beamformerToOutput")
    \/ \E outcome \in OutputOutcomes : outIo(outcome)
    \/ \E ok \in BOOLEAN : outRetry(ok)

\* C20: no stage makes a hardware transfer or a channel read or write while
\* the global state is Error, Recovering or Terminating.
C20_NoTransferWhileHalted ==
    [][(globalState \in Halting) => (~StageTransfer)]_vars

(***************************************************************************)
(* Properties of the stage loops                                           *)
(***************************************************************************)
\* The capture thread's call of reportError has returned.
CaptureReportReturned == ePc["capture"] = "idle" /\ eSet["capture"] # <<>>

\* C21: once the report of the capture stage has returned with the global
\* state back at Running, and the stage is not stopped, the stage is not left
\* in its paused poll: its loop goes on to the next transfer.
C21_ResumesAfterRecovery ==
    ( /\ CaptureReportReturned
      /\ globalState = "STATE_RUNNING"
      /\ stRunning["capture"]
      /\ stPc["capture"] = "loop" ) => stState["capture"] \notin Halting

\* C22: every capture transfer that returns a period, silent or not, is
\* followed by a write of frames x NUM_CHANNELS samples, and on an open
\* channel all of them are stored.
C22_CaptureForwardsEveryPeriod ==
    [][/\ \A outcome \in {"data", "silent"} :
            capIo(outcome) => stPc'["capture"] = "write"
       /\ (capWrite /\ ~chClosed["captureToBeamformer"]) =>
            chFill'["captureToBeamformer"] =
                chFill["captureToBeamformer"] + FRAME_SIZE * NUM_CHANNELS]_vars

\* C23: when session recovery fails in the capture stage the kind reported is
\* ERROR_ALSA_XRUN after -EPIPE and ERROR_ALSA_SUSPEND after -ESTRPIPE; when
\* the report returns the stage sets its state to Error, and it makes no
\* transfer while its state is Error.
C23_ReportedKindMatchesFault ==
    [][/\ capIo("failed") => eErr'["capture"] = "ERROR_ALSA_XRUN"
       /\ capResume("failed") => eErr'["capture"] = "ERROR_ALSA_SUSPEND"
       /\ stReported("capture") => stState'["capture"] = "STATE_ERROR"
       /\ stState["capture"] = "STATE_ERROR" =>
            ~ \E outcome \in CaptureOutcomes : capIo(outcome)]_vars

\* C24: an output stage that has set its state to Error after a failed
\* recovery or a failed retry has reported a fault to ErrorHandler.
C24_OutputFaultIsReported ==
    stState["output"] = "STATE_ERROR" => lastError # "ERROR_NONE"

\* A write of one period of zero samples.
Silence(w) == w.frames = FRAME_SIZE /\ w.data = 0 /\ w.zeros = FRAME_SIZE

\* outputLoop has not yet written a period it read.
NoPeriodYet == \A i \in 1 .. Len(outWrites) : outWrites[i].kind = "preroll"

\* C25: the output thread writes exactly two periods of silence before its
\* first read and before its first write of a period it read.
C25_PrerollBeforeData ==
    [][/\ stRead("output", "beamformerToOutput") =>
            /\ Len(outWrites) >= 2
            /\ Silence(outWrites[1]) /\ Silence(outWrites[2])
            /\ NoPeriodYet => Len(outWrites) = 2
       /\ \A i \in 1 .. Len(outWrites') :
            outWrites'[i].kind = "preroll" <=> i <= 2
       /\ (stPc["output"] = "preroll" /\ stPc'["output"] # "preroll") =>
            Len(outWrites') = 2]_vars

C25_Witness ==
    /\ Len(outWrites) >= 3
    /\ outWrites[3].kind = "period"
    /\ outWrites[3].data = FRAME_SIZE

\* C26: every snd_pcm_writei of the output stage passes one full period:
\* the samples read and zeros for the rest; no write is made of a period of
\* which nothing was read.
C26_FullPeriodWrites ==
    /\ \A i \in 1 .. Len(outWrites) :
          /\ outWrites[i].frames = FRAME_SIZE
          /\ outWrites[i].data + outWrites[i].zeros = FRAME_SIZE
          /\ outWrites[i].data >= 0 /\ outWrites[i].zeros >= 0
          /\ outWrites[i].kind # "preroll" => outWrites[i].data > 0
    /\ stPc["output"] \in {"io", "resume", "retry"} => outRead > 0

C26_Witness ==
    \E i \in 1 .. Len(outWrites) :
        /\ outWrites[i].kind \in {"period", "retry"}
        /\ outWrites[i].frames = FRAME_SIZE
        /\ outWrites[i].data = FRAME_SIZE

\* The channel a stage reads and the one it writes.
upstream(s) ==
    IF s = "processing" THEN "captureToBeamformer" ELSE "beamformerToOutput"

\* C27: a read by the processing or the output stage that returns less than
\* a period from a closed channel ends the thread: the stage's state stays as
\* it is, nothing is reported, nothing is written to the hardware or to the
\* next channel.
C27_CleanEndOfStream ==
    [][\A s \in {"processing", "output"} :
          ( /\ stRead(s, upstream(s))
            /\ chClosed[upstream(s)]
            /\ chFill[upstream(s)] < periodSamples(upstream(s)) ) =>
               /\ stPc'[s] = "exited"
               /\ UNCHANGED <<stState, ehVars, outWrites>>
               /\ chFill'["beamformerToOutput"] <= chFill["beamformerToOutput"]]_vars

C27_Witness ==
    /\ \A s \in {"processing", "output"} : stPc[s] \in {"exited", "joined"}
    /\ stRunning["output"] /\ stRunning["processing"]
    /\ outRead < FRAME_SIZE
    /\ chClosed["beamformerToOutput"]
    /\ lastError = "ERROR_NONE"

\* C28: after a write that failed and a recovery that succeeded, the retry
\* writes the same period once more; when it succeeds the state of the stage
\* stays Running, the global state is not touched and the loop goes on.
C28_RecoveredUnderrunContinues ==
    [][/\ outIo("recovered") =>
            /\ stPc'["output"] = "retry"
            /\ UNCHANGED <<stState, ehVars>>
       /\ outRetry(TRUE) =>
            /\ outWrites' = Append(outWrites,
                   [outWrites[Len(outWrites)] EXCEPT !.kind = "retry"])
            /\ stState["output"] = "STATE_RUNNING"
            /\ stState'["output"] = "STATE_RUNNING"
            /\ stPc'["output"] = "loop"
            /\ stRunning'["output"]
            /\ UNCHANGED ehVars]_vars

C28_Witness ==
    /\ Len(outWrites) >= 4
    /\ outWrites[Len(outWrites)].kind = "retry"
    /\ outWrites[Len(outWrites) - 1].kind = "period"
    /\ stPc["output"] = "read"
    /\ stState["output"] = "STATE_RUNNING"

\* C29: a suspend recovery calls snd_pcm_resume again at most
\* MAX_XRUN_RETRIES times.
C29_ResumeAttemptsBounded ==
    \A s \in {"capture", "output"} : resumeTries[s] <= MAX_XRUN_RETRIES

\* init() has returned false: a stage's init() has failed.
InitFailed == mainPc \in {"dtor", "exited"} /\ Len(initOrder) < 3

\* C30: after a failed init of a stage main returns 1, no stage thread and no
\* watchdog thread exists, and the state of the stage that failed is not
\* Running; a stage thread exists only when all three inits have succeeded.
C30_InitFailureExitsWithOne ==
    /\ InitFailed =>
          /\ mainRet = 1
          /\ \A s \in Stages : stPc[s] = "none" /\ ~stRunning[s]
          /\ wdPc = "none" /\ ~watchdogRunning
          /\ stState[<<"capture", "processing", "output">>[Len(initOrder) + 1]]
                # "STATE_RUNNING"
    /\ \A s \in Stages : stPc[s] # "none" => Len(initOrder) = 3
    /\ (wdPc # "none" \/ watchdogRunning) => Len(initOrder) = 3

C30_Witness ==
    /\ mainPc = "exited"
    /\ mainRet = 1
    /\ initOrder = <<"capture">>
    /\ stState["processing"] = "STATE_INIT"

(***************************************************************************)
(* Properties of the processing stage, of the recovery of a hardware       *)
(* session and of the threads that call into the registry                  *)
(***************************************************************************)
\* The processing thread's call of reportError has returned to
\* processingLoop and `state = STATE_ERROR` has been executed.
ProcessingReportDone ==
    stPc["processing"] # "report" /\ eSet["processing"] # <<>>

\* C31: the fault of a period is reported as ERROR_PROCESSING, the report
\* returns to the processing thread (it neither blocks in reportError nor
\* ends the process), and from its return on the stage's own state is Error.
C31_ProcessingFaultHalts ==
    /\ stPc["processing"] = "report" =>
          /\ eErr["processing"] = "ERROR_PROCESSING"
          /\ ~Stuck("processing")
          /\ ePc["processing"] # "threw"
    /\ ProcessingReportDone => stState["processing"] = "STATE_ERROR"

\* C37: no thread asks for errorMutex while it owns it: the step of
\* reportError that calls recoverFromError, whose first statement locks
\* errorMutex, is never taken by the owner of errorMutex.
C37_NoSelfRelock ==
    [][\A t \in Reporters :
          (\E outcome \in RelockOutcomes : reRecover(t, outcome)) =>
              errorMutex # t]_vars

\* C39: stop() is never run by the signal handler on a stage thread or on the
\* watchdog thread, and no call of stop() joins the thread it runs on.
C39_StopOffWorkerThreads ==
    /\ hHost \notin (Stages \cup {"watchdog"})
    /\ \A c \in Ctx : stopPc[c] = "join" => ctxThread(c) # joinTarget(c)

\* C38: the watchdog reports a missed window only when pingWatchdog() was not
\* called since its previous test of watchdogPing: a test that finds
\* watchdogPing false is never made after a ping that came since the test
\* before it.
C38_NoPingLost ==
    [][(wdCheck /\ ~watchdogPing) => ~pinged]_vars

\* C36: after -ESTRPIPE xrunRecovery calls snd_pcm_prepare exactly when the
\* polling of snd_pcm_resume ended with an error; it returns success when
\* resume succeeded, and otherwise exactly when that prepare succeeded.
\* After -EPIPE it calls snd_pcm_prepare and returns its result.
C36_PrepareOnlyAfterFailedResume ==
    /\ capRecov.err = "ESTRPIPE" =>
          /\ capRecov.prepare # "none" <=> capRecov.resume = "fail"
          /\ capRecov.resume = "ok" => capRecov.ok
          /\ capRecov.resume = "fail" =>
                (capRecov.ok <=> capRecov.prepare = "ok")
    /\ capRecov.err = "EPIPE" =>
          /\ capRecov.prepare # "none"
          /\ capRecov.ok <=> capRecov.prepare = "ok"
    /\ (stPc["capture"] = "report" /\ capRecov # NoRecovery) => ~capRecov.ok

C36_Witness ==
    /\ capRecov.err = "ESTRPIPE"
    /\ capRecov.resume = "fail"
    /\ capRecov.prepare = "ok"
    /\ capRecov.ok
    /\ stPc["capture"] = "loop"

\* C34: every entry of the delay table is the negative of the entry of the
\* mirrored angle, the entry of 90 degrees is 0, and no entry is beyond
\* MAX_STEERING_DELAY.
C34_DelayTableSymmetric ==
    dAngle > 0 =>
        LET a == dAngle - 1 IN
            /\ a = 90 => dDelay = 0
            /\ dDelay = 0 - delayPerAngle(180 - a)
            /\ dDelay <= MAX_STEERING_DELAY
            /\ 0 - dDelay <= MAX_STEERING_DELAY

C34_Witness == dAngle = 1 /\ dDelay = 0 - 5

\* C32: the direction estimator runs on a period exactly when the index of
\* the period, counted from the start of the stage, is a multiple of 10.
C32_EstimatesEveryTenth ==
    [][\A outcome \in ProcessingOutcomes :
          procWork(outcome) => (estimatesDOA(frameCount) <=> bfIndex % DoaEvery = 0)]_vars

\* C33: the steering angle is 90 when the stage is constructed, is between 0
\* and 180 in every state, and only a step of the processing thread stores
\* it.
C33_SteeringInRange ==
    /\ [](/\ currentSteeringAngle >= 0
          /\ currentSteeringAngle <= 180
          /\ (stPc["processing"] = "none" => currentSteeringAngle = 90))
    /\ [][currentSteeringAngle' # currentSteeringAngle
             => \E outcome \in ProcessingOutcomes : procWork(outcome)]_vars

C33_Witness ==
    /\ frameCount > DoaEvery
    /\ bfIndex = 1
    /\ stPc["processing"] = "write"
    /\ currentSteeringAngle = 90

====
